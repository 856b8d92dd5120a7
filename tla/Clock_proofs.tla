----------------------------- MODULE Clock_proofs -----------------------------
(***************************************************************************)
(* The two clocks.  The clock tree is safe, and consistent at rest, after  *)
(* any number of failed calls and resets.  The wall clock reads the time   *)
(* that was set, over every end of a month or of a year that the RTC can   *)
(* count to, and the ground station is told it byte for byte.              *)
(***************************************************************************)
EXTENDS Clock, TimeUpload, WellFoundedInduction, TLAPS

-----------------------------------------------------------------------------
(* The clock tree: the inductive invariant *)

Goals == {80, 8, 2}

\* What may be left of the calls of a function.
ConfigRest(freq) ==
    CASE freq = 80 -> {<<"Range1", "StartPll", "UsePll">>, <<"StartPll", "UsePll">>,
                       <<"UsePll">>, <<>>}
      [] freq = 8 -> {<<"Range2", "StartMsi", "UseMsi">>, <<"StartMsi", "UseMsi">>,
                      <<"UseMsi">>, <<>>}
      [] freq = 2 -> {<<"Range2", "StartMsi", "UseMsi", "EnterLpr">>,
                      <<"StartMsi", "UseMsi", "EnterLpr">>, <<"UseMsi", "EnterLpr">>,
                      <<"EnterLpr">>, <<>>}

SwitchRest(freq) ==
    CASE freq = 80 -> {<<"LeaveLpr", "Range1", "StartPll", "UsePll", "StopMsi">>,
                       <<"Range1", "StartPll", "UsePll", "StopMsi">>,
                       <<"StartPll", "UsePll", "StopMsi">>, <<"UsePll", "StopMsi">>,
                       <<"StopMsi">>, <<>>}
      [] freq = 8 -> {<<"LeaveLpr", "StartMsi", "UseMsi", "StopPll", "Range2">>,
                      <<"StartMsi", "UseMsi", "StopPll", "Range2">>,
                      <<"UseMsi", "StopPll", "Range2">>, <<"StopPll", "Range2">>,
                      <<"Range2">>, <<>>}
      [] freq = 2 -> {<<"LeaveLpr", "StartMsi", "UseMsi", "StopPll", "Range2", "EnterLpr">>,
                      <<"StartMsi", "UseMsi", "StopPll", "Range2", "EnterLpr">>,
                      <<"UseMsi", "StopPll", "Range2", "EnterLpr">>,
                      <<"StopPll", "Range2", "EnterLpr">>, <<"Range2", "EnterLpr">>,
                      <<"EnterLpr">>, <<>>}

InitRest == {<<"tim5", "tim2", "spi2", "iwdg", "uart4", "rtc", "adc1">>,
             <<"tim2", "spi2", "iwdg", "uart4", "rtc", "adc1">>,
             <<"spi2", "iwdg", "uart4", "rtc", "adc1">>, <<"iwdg", "uart4", "rtc", "adc1">>,
             <<"uart4", "rtc", "adc1">>, <<"rtc", "adc1">>, <<"adc1">>, <<>>}

ReconfigureRest == {<<"tim5", "uart4", "spi2", "adc1">>, <<"uart4", "spi2", "adc1">>,
                    <<"spi2", "adc1">>, <<"adc1">>, <<>>}

In(call, program) == \E i \in DOMAIN program : program[i] = call
Left(call) == In(call, calls)

-----------------------------------------------------------------------------
(* The order of the calls *)

\* The configuration of main: the voltage is set before the source is selected.
LEMMA ConfigOrder ==
    ASSUME NEW f \in Goals, NEW p \in ConfigRest(f), p # <<>>
    PROVE  /\ Tail(p) \in ConfigRest(f)
           /\ \A c : In(c, Tail(p)) <=> In(c, p) /\ c # Head(p)
           /\ In(Head(p), p) /\ ~In("LeaveLpr", p) /\ ~In("Range2", Tail(p))
           /\ Head(p) = "StartMsi" => In("UseMsi", Tail(p))
           /\ f = 80 => /\ Head(p) \in {"Range1", "StartPll", "UsePll"}
                        /\ Head(p) = "UsePll" => ~In("Range1", p) /\ ~In("StartPll", p)
           /\ f # 80 => /\ Head(p) \in {"Range2", "StartMsi", "UseMsi", "EnterLpr"}
                        /\ Head(p) \in {"UseMsi", "EnterLpr"} => ~In("StartMsi", p)
                        /\ Head(p) = "EnterLpr" => f = 2 /\ ~In("UseMsi", p) /\ Tail(p) = <<>>
<1>1. CASE f = 80
  <2>1. CASE p = <<"Range1", "StartPll", "UsePll">>
    BY <1>1, <2>1 DEF ConfigRest, In
  <2>2. CASE p = <<"StartPll", "UsePll">>
    BY <1>1, <2>2 DEF ConfigRest, In
  <2>3. CASE p = <<"UsePll">>
    BY <1>1, <2>3 DEF ConfigRest, In
  <2>4. QED
    BY <1>1, <2>1, <2>2, <2>3 DEF ConfigRest
<1>2. CASE f = 8
  <2>1. CASE p = <<"Range2", "StartMsi", "UseMsi">>
    BY <1>2, <2>1 DEF ConfigRest, In
  <2>2. CASE p = <<"StartMsi", "UseMsi">>
    BY <1>2, <2>2 DEF ConfigRest, In
  <2>3. CASE p = <<"UseMsi">>
    BY <1>2, <2>3 DEF ConfigRest, In
  <2>4. QED
    BY <1>2, <2>1, <2>2, <2>3 DEF ConfigRest
<1>3. CASE f = 2
  <2>1. CASE p = <<"Range2", "StartMsi", "UseMsi", "EnterLpr">>
    BY <1>3, <2>1 DEF ConfigRest, In
  <2>2. CASE p = <<"StartMsi", "UseMsi", "EnterLpr">>
    BY <1>3, <2>2 DEF ConfigRest, In
  <2>3. CASE p = <<"UseMsi", "EnterLpr">>
    BY <1>3, <2>3 DEF ConfigRest, In
  <2>4. CASE p = <<"EnterLpr">>
    BY <1>3, <2>4 DEF ConfigRest, In
  <2>5. QED
    BY <1>3, <2>1, <2>2, <2>3, <2>4 DEF ConfigRest
<1>4. QED
  BY <1>1, <1>2, <1>3 DEF Goals

\* A switch: the voltage is raised before the frequency and lowered after it.
LEMMA SwitchOrder ==
    ASSUME NEW f \in Goals, NEW p \in SwitchRest(f), p # <<>>
    PROVE  /\ Tail(p) \in SwitchRest(f)
           /\ \A c : In(c, Tail(p)) <=> In(c, p) /\ c # Head(p)
           /\ In(Head(p), p)
           /\ Head(p) = "StartMsi" => In("UseMsi", Tail(p))
           /\ Head(p) # "LeaveLpr" => ~In("LeaveLpr", p)
           /\ f = 80 => /\ Head(p) \in {"LeaveLpr", "Range1", "StartPll", "UsePll", "StopMsi"}
                        /\ Head(p) = "UsePll" => ~In("Range1", p) /\ ~In("StartPll", p)
                        /\ Head(p) = "StopMsi" => ~In("UsePll", p)
           /\ f # 80 => /\ Head(p) \in {"LeaveLpr", "StartMsi", "UseMsi", "StopPll", "Range2",
                                        "EnterLpr"}
                        /\ Head(p) \in {"UseMsi", "StopPll", "Range2", "EnterLpr"} => ~In("StartMsi", p)
                        /\ Head(p) \in {"StopPll", "Range2", "EnterLpr"} => ~In("UseMsi", p)
                        /\ Head(p) = "EnterLpr" => f = 2 /\ Tail(p) = <<>>
<1>1. CASE f = 80
  <2>1. CASE p = <<"LeaveLpr", "Range1", "StartPll", "UsePll", "StopMsi">>
    BY <1>1, <2>1 DEF SwitchRest, In
  <2>2. CASE p = <<"Range1", "StartPll", "UsePll", "StopMsi">>
    BY <1>1, <2>2 DEF SwitchRest, In
  <2>3. CASE p = <<"StartPll", "UsePll", "StopMsi">>
    BY <1>1, <2>3 DEF SwitchRest, In
  <2>4. CASE p = <<"UsePll", "StopMsi">>
    BY <1>1, <2>4 DEF SwitchRest, In
  <2>5. CASE p = <<"StopMsi">>
    BY <1>1, <2>5 DEF SwitchRest, In
  <2>6. \/ p = <<"LeaveLpr", "Range1", "StartPll", "UsePll", "StopMsi">>
        \/ p = <<"Range1", "StartPll", "UsePll", "StopMsi">>
        \/ p = <<"StartPll", "UsePll", "StopMsi">>
        \/ p = <<"UsePll", "StopMsi">>
        \/ p = <<"StopMsi">>
    BY <1>1 DEF SwitchRest
  <2>7. QED
    BY <2>1, <2>2, <2>3, <2>4, <2>5, <2>6
<1>2. CASE f = 8
  <2>1. CASE p = <<"LeaveLpr", "StartMsi", "UseMsi", "StopPll", "Range2">>
    BY <1>2, <2>1 DEF SwitchRest, In
  <2>2. CASE p = <<"StartMsi", "UseMsi", "StopPll", "Range2">>
    BY <1>2, <2>2 DEF SwitchRest, In
  <2>3. CASE p = <<"UseMsi", "StopPll", "Range2">>
    BY <1>2, <2>3 DEF SwitchRest, In
  <2>4. CASE p = <<"StopPll", "Range2">>
    BY <1>2, <2>4 DEF SwitchRest, In
  <2>5. CASE p = <<"Range2">>
    BY <1>2, <2>5 DEF SwitchRest, In
  <2>6. \/ p = <<"LeaveLpr", "StartMsi", "UseMsi", "StopPll", "Range2">>
        \/ p = <<"StartMsi", "UseMsi", "StopPll", "Range2">>
        \/ p = <<"UseMsi", "StopPll", "Range2">>
        \/ p = <<"StopPll", "Range2">>
        \/ p = <<"Range2">>
    BY <1>2 DEF SwitchRest
  <2>7. QED
    BY <2>1, <2>2, <2>3, <2>4, <2>5, <2>6
<1>3. CASE f = 2
  <2>1. CASE p = <<"LeaveLpr", "StartMsi", "UseMsi", "StopPll", "Range2", "EnterLpr">>
    BY <1>3, <2>1 DEF SwitchRest, In
  <2>2. CASE p = <<"StartMsi", "UseMsi", "StopPll", "Range2", "EnterLpr">>
    BY <1>3, <2>2 DEF SwitchRest, In
  <2>3. CASE p = <<"UseMsi", "StopPll", "Range2", "EnterLpr">>
    BY <1>3, <2>3 DEF SwitchRest, In
  <2>4. CASE p = <<"StopPll", "Range2", "EnterLpr">>
    BY <1>3, <2>4 DEF SwitchRest, In
  <2>5. CASE p = <<"Range2", "EnterLpr">>
    BY <1>3, <2>5 DEF SwitchRest, In
  <2>6. CASE p = <<"EnterLpr">>
    BY <1>3, <2>6 DEF SwitchRest, In
  <2>7. \/ p = <<"LeaveLpr", "StartMsi", "UseMsi", "StopPll", "Range2", "EnterLpr">>
        \/ p = <<"StartMsi", "UseMsi", "StopPll", "Range2", "EnterLpr">>
        \/ p = <<"UseMsi", "StopPll", "Range2", "EnterLpr">>
        \/ p = <<"StopPll", "Range2", "EnterLpr">>
        \/ p = <<"Range2", "EnterLpr">>
        \/ p = <<"EnterLpr">>
    BY <1>3 DEF SwitchRest
  <2>8. QED
    BY <2>1, <2>2, <2>3, <2>4, <2>5, <2>6, <2>7
<1>4. QED
  BY <1>1, <1>2, <1>3 DEF Goals

LEMMA InitOrder ==
    ASSUME NEW p \in InitRest, p # <<>>
    PROVE  /\ Tail(p) \in InitRest
           /\ \A c : In(c, Tail(p)) <=> In(c, p) /\ c # Head(p)
<1>1. CASE p = <<"tim5", "tim2", "spi2", "iwdg", "uart4", "rtc", "adc1">>
  BY <1>1 DEF InitRest, In
<1>2. CASE p = <<"tim2", "spi2", "iwdg", "uart4", "rtc", "adc1">>
  BY <1>2 DEF InitRest, In
<1>3. CASE p = <<"spi2", "iwdg", "uart4", "rtc", "adc1">>
  BY <1>3 DEF InitRest, In
<1>4. CASE p = <<"iwdg", "uart4", "rtc", "adc1">>
  BY <1>4 DEF InitRest, In
<1>5. CASE p = <<"uart4", "rtc", "adc1">>
  BY <1>5 DEF InitRest, In
<1>6. CASE p = <<"rtc", "adc1">>
  BY <1>6 DEF InitRest, In
<1>7. CASE p = <<"adc1">>
  BY <1>7 DEF InitRest, In
<1>8. QED
  BY <1>1, <1>2, <1>3, <1>4, <1>5, <1>6, <1>7 DEF InitRest

LEMMA ReconfigureOrder ==
    ASSUME NEW p \in ReconfigureRest, p # <<>>
    PROVE  /\ Tail(p) \in ReconfigureRest
           /\ \A c : In(c, Tail(p)) <=> In(c, p) /\ c # Head(p)
<1>1. CASE p = <<"tim5", "uart4", "spi2", "adc1">>
  BY <1>1 DEF ReconfigureRest, In
<1>2. CASE p = <<"uart4", "spi2", "adc1">>
  BY <1>2 DEF ReconfigureRest, In
<1>3. CASE p = <<"spi2", "adc1">>
  BY <1>3 DEF ReconfigureRest, In
<1>4. CASE p = <<"adc1">>
  BY <1>4 DEF ReconfigureRest, In
<1>5. QED
  BY <1>1, <1>2, <1>3, <1>4 DEF ReconfigureRest

LEMMA Starts ==
    ASSUME NEW f \in Goals
    PROVE  /\ ConfigCalls(f) \in ConfigRest(f) /\ SwitchCalls(f) \in SwitchRest(f)
           /\ hw.lpr => In("LeaveLpr", SwitchCalls(f))
           /\ f = 80 => \A c \in {"Range1", "StartPll", "UsePll"} :
                            In(c, ConfigCalls(f)) /\ In(c, SwitchCalls(f))
           /\ f # 80 => \A c \in {"StartMsi", "UseMsi"} :
                            In(c, ConfigCalls(f)) /\ In(c, SwitchCalls(f))
<1>1. CASE f = 80
  BY <1>1 DEF ConfigCalls, SwitchCalls, ConfigRest, SwitchRest, In
<1>2. CASE f = 8
  BY <1>2 DEF ConfigCalls, SwitchCalls, ConfigRest, SwitchRest, In
<1>3. CASE f = 2
  BY <1>3 DEF ConfigCalls, SwitchCalls, ConfigRest, SwitchRest, In
<1>4. QED
  BY <1>1, <1>2, <1>3 DEF Goals

LEMMA PeripheralStarts ==
    /\ InitCalls \in InitRest /\ ReconfigureCalls \in ReconfigureRest
    /\ \A p \in Peripherals : In(p, InitCalls) /\ In(p, ReconfigureCalls)
BY DEF InitCalls, ReconfigureCalls, InitRest, ReconfigureRest, Peripherals, In

LEMMA NothingIn == \A c : ~In(c, <<>>)
BY DEF In


-----------------------------------------------------------------------------
(* The invariant, continued *)

Registers == [source : {"MSI", "PLL"}, msi : {2, 4, 8}, msiOn : BOOLEAN, pllOn : BOOLEAN,
              range : {1, 2}, lpr : BOOLEAN, latency : 0..4]

Programs ==
    /\ phase \in {"reset", "config", "init", "idle", "switch", "reconfigure", "halt"}
    /\ goal \in Goals
    /\ phase = "config" => calls \in ConfigRest(goal)
    /\ phase = "switch" => calls \in SwitchRest(goal)
    /\ phase = "init" => calls \in InitRest
    /\ phase = "reconfigure" => calls \in ReconfigureRest
    /\ phase \notin {"config", "switch", "init", "reconfigure"} => calls = <<>>

\* What the calls made so far have established.
Tree ==
    /\ phase = "reset" => hw = ResetRegisters
    /\ phase = "config" => /\ goal # 80 => hw.source = "MSI"
                           /\ Left("Range2") => hw.msi = 4
    /\ phase \in {"config", "switch"} =>
         /\ hw.lpr => Left("LeaveLpr") \/ calls = <<>>
         /\ goal = 80 => /\ Left("Range1") \/ hw.range = 1
                         /\ Left("StartPll") \/ hw.pllOn
                         /\ Left("UsePll") \/ hw.source = "PLL"
         /\ goal # 80 => /\ Left("StartMsi") \/ (hw.msi = goal /\ hw.msiOn)
                         /\ Left("UseMsi") \/ (hw.source = "MSI" /\ hw.latency = Latency(goal))

TreeInv == hw \in Registers /\ Programs /\ Tree /\ SafeClock

\* What a call may rely on.
LEMMA Before ==
    ASSUME TreeInv, phase \in {"config", "switch"}, calls # <<>>
    PROVE  /\ Head(calls) \in {"LeaveLpr", "Range1", "StartPll", "UsePll", "StopMsi", "StartMsi",
                               "UseMsi", "StopPll", "Range2", "EnterLpr"}
           /\ Head(calls) # "LeaveLpr" => ~hw.lpr
           /\ Head(calls) \in {"Range1", "StartPll", "UsePll", "StopMsi"} => goal = 80
           /\ Head(calls) \in {"StartMsi", "UseMsi", "StopPll", "Range2", "EnterLpr"} => goal \in {8, 2}
           /\ Head(calls) = "UsePll" => hw.range = 1 /\ hw.pllOn
           /\ Head(calls) = "StopMsi" => hw.source = "PLL"
           /\ Head(calls) \in {"UseMsi", "StopPll", "EnterLpr"} => hw.msi = goal /\ hw.msiOn
           /\ Head(calls) \in {"StopPll", "EnterLpr"} => hw.source = "MSI"
           /\ Head(calls) = "Range2" => /\ hw.source = "MSI"
                                        /\ \/ hw.msi = 4
                                           \/ hw.msi = goal /\ hw.latency = Latency(goal)
           /\ Head(calls) = "EnterLpr" => goal = 2 /\ Tail(calls) = <<>>
<1>1. CASE phase = "config"
  <2>1. calls \in ConfigRest(goal) /\ goal \in Goals
    BY <1>1 DEF TreeInv, Programs
  <2>2. QED
    BY <1>1, <2>1, ConfigOrder DEF TreeInv, Tree, Left, Goals
<1>2. CASE phase = "switch"
  <2>1. calls \in SwitchRest(goal) /\ goal \in Goals
    BY <1>2 DEF TreeInv, Programs
  <2>2. QED
    BY <1>2, <2>1, SwitchOrder DEF TreeInv, Tree, Left, Goals
<1>3. QED
  BY <1>1, <1>2

-----------------------------------------------------------------------------
(* Changes of several registers *)

\* What the changes of several registers leave alone.
Same(r, q) == q.range = r.range /\ q.lpr = r.lpr /\ q.pllOn = r.pllOn

LEMMA SetLatency ==
    ASSUME NEW r \in Registers, NEW l \in 0..4, NEW q, q = [r EXCEPT !.latency = l]
    PROVE  /\ q \in Registers
           /\ Same(r, q) /\ q.latency = l /\ q.source = r.source /\ q.msi = r.msi
           /\ q.msiOn = r.msiOn
BY DEF Registers, Same

LEMMA SetSource ==
    ASSUME hw \in Registers, NEW s \in {"MSI", "PLL"}, NEW l \in 0..4,
           hw' = [hw EXCEPT !.source = s, !.latency = l]
    PROVE  /\ hw' \in Registers
           /\ Same(hw, hw') /\ hw'.latency = l /\ hw'.source = s /\ hw'.msi = hw.msi
           /\ hw'.msiOn = hw.msiOn
<1> DEFINE q1 == [hw EXCEPT !.source = s]
<1>1. q1 \in Registers /\ Same(hw, q1) /\ q1.source = s /\ q1.msi = hw.msi /\ (q1.msiOn = hw.msiOn)
  BY DEF Registers, Same
<1>2. hw' = [q1 EXCEPT !.latency = l]
  OBVIOUS
<1> HIDE DEF q1
<1>3. hw' \in Registers /\ Same(q1, hw') /\ hw'.latency = l /\ hw'.source = q1.source
        /\ hw'.msi = q1.msi /\ hw'.msiOn = q1.msiOn
  BY ONLY <1>1, <1>2, l \in 0..4, SetLatency
<1>4. QED
  BY <1>1, <1>3 DEF Same

LEMMA SetMsi ==
    ASSUME hw \in Registers, NEW m \in {2, 8}, NEW l \in 0..4,
           hw' = [hw EXCEPT !.msiOn = TRUE, !.msi = m, !.latency = l]
    PROVE  /\ hw' \in Registers /\ Same(hw, hw') /\ hw'.latency = l /\ hw'.source = hw.source
           /\ hw'.msi = m /\ hw'.msiOn
<1> DEFINE q1 == [hw EXCEPT !.msiOn = TRUE]
           q2 == [q1 EXCEPT !.msi = m]
<1>1. q1 \in Registers /\ Same(hw, q1) /\ q1.source = hw.source /\ q1.msiOn
  BY DEF Registers, Same
<1>2. hw' = [q2 EXCEPT !.latency = l]
  OBVIOUS
<1> HIDE DEF q1
<1>3. q2 \in Registers /\ Same(q1, q2) /\ q2.source = q1.source /\ q2.msi = m /\ (q2.msiOn = q1.msiOn)
  BY <1>1 DEF Registers, Same
<1> HIDE DEF q2
<1>4. hw' \in Registers /\ Same(q2, hw') /\ hw'.latency = l /\ hw'.source = q2.source
        /\ hw'.msi = q2.msi /\ hw'.msiOn = q2.msiOn
  BY ONLY <1>2, <1>3, l \in 0..4, SetLatency
<1>5. QED
  BY <1>1, <1>3, <1>4 DEF Same

-----------------------------------------------------------------------------
(* Each call is safe, whether it takes effect or fails *)

LEMMA EffectIsSafe ==
    ASSUME TreeInv, phase \in {"config", "switch"}, calls # <<>>, hw' = Effect(Head(calls))
    PROVE  hw' \in Registers /\ SafeClock'
<1> USE DEF SafeClock, SysClock, WaitStates
<1>r. hw \in Registers
  BY DEF TreeInv
<1>0. hw \in Registers /\ SafeClock
  BY DEF TreeInv
<1>1. CASE Head(calls) = "LeaveLpr"
  <2>1. hw' = [hw EXCEPT !.lpr = FALSE]
    BY <1>1 DEF Effect
  <2>2. hw' \in Registers /\ hw'.source = hw.source /\ hw'.msi = hw.msi /\ hw'.msiOn = hw.msiOn
          /\ hw'.pllOn = hw.pllOn /\ hw'.range = hw.range /\ hw'.latency = hw.latency /\ hw'.lpr = FALSE
    BY <1>r, <2>1 DEF Registers
  <2>3. QED
    BY <1>0, <2>2 DEF Registers
<1>2. CASE Head(calls) = "EnterLpr"
  <2>1. hw' = [hw EXCEPT !.lpr = TRUE]
    BY <1>2 DEF Effect
  <2>2. hw.source = "MSI" /\ hw.msi = 2
    BY <1>2, Before
  <2>3. hw' \in Registers /\ hw'.source = hw.source /\ hw'.msi = hw.msi /\ hw'.range = hw.range
          /\ hw'.latency = hw.latency /\ hw'.msiOn = hw.msiOn
    BY <1>0, <2>1 DEF Registers
  <2>4. QED
    BY <1>0, <2>2, <2>3 DEF Registers
<1>3. CASE Head(calls) = "Range1"
  <2>1. hw' = [hw EXCEPT !.range = 1]
    BY <1>3 DEF Effect
  <2>2. hw' \in Registers /\ hw'.source = hw.source /\ hw'.msi = hw.msi /\ hw'.msiOn = hw.msiOn
          /\ hw'.pllOn = hw.pllOn /\ hw'.lpr = hw.lpr /\ hw'.latency = hw.latency /\ hw'.range = 1
    BY <1>r, <2>1 DEF Registers
  <2>3. QED
    BY <1>0, <2>2 DEF Registers
<1>4. CASE Head(calls) = "Range2"
  <2>1. hw' = [hw EXCEPT !.range = 2]
    BY <1>4 DEF Effect
  <2>2. /\ hw.source = "MSI" /\ ~hw.lpr /\ goal \in {8, 2}
        /\ hw.msi = 4 \/ (hw.msi = goal /\ hw.latency = Latency(goal))
    BY <1>4, Before
  <2>3. hw' \in Registers /\ hw'.source = hw.source /\ hw'.msi = hw.msi /\ hw'.range = 2
          /\ hw'.latency = hw.latency /\ hw'.msiOn = hw.msiOn /\ hw'.lpr = hw.lpr
    BY <1>0, <2>1 DEF Registers
  <2>4. QED
    BY <1>0, <2>2, <2>3 DEF Latency, Registers
<1>5. CASE Head(calls) = "StartPll"
  <2>1. hw' = [hw EXCEPT !.pllOn = TRUE]
    BY <1>5 DEF Effect
  <2>2. hw' \in Registers /\ hw'.source = hw.source /\ hw'.msi = hw.msi /\ hw'.msiOn = hw.msiOn
          /\ hw'.range = hw.range /\ hw'.lpr = hw.lpr /\ hw'.latency = hw.latency /\ hw'.pllOn = TRUE
    BY <1>r, <2>1 DEF Registers
  <2>3. QED
    BY <1>0, <2>2 DEF Registers
<1>6. CASE Head(calls) = "StopPll"
  <2>1. hw' = [hw EXCEPT !.pllOn = FALSE]
    BY <1>6 DEF Effect
  <2>2. hw.source = "MSI"
    BY <1>6, Before
  <2>3. hw' \in Registers /\ hw'.source = hw.source /\ hw'.msi = hw.msi /\ hw'.msiOn = hw.msiOn
          /\ hw'.range = hw.range /\ hw'.lpr = hw.lpr /\ hw'.latency = hw.latency /\ hw'.pllOn = FALSE
    BY <1>r, <2>1 DEF Registers
  <2>4. QED
    BY <1>0, <2>2, <2>3
<1>7. CASE Head(calls) = "StopMsi"
  <2>1. hw' = [hw EXCEPT !.msiOn = FALSE]
    BY <1>7 DEF Effect
  <2>2. hw.source = "PLL"
    BY <1>7, Before
  <2>3. hw' \in Registers /\ hw'.source = hw.source /\ hw'.msi = hw.msi /\ hw'.pllOn = hw.pllOn
          /\ hw'.range = hw.range /\ hw'.lpr = hw.lpr /\ hw'.latency = hw.latency /\ hw'.msiOn = FALSE
    BY <1>r, <2>1 DEF Registers
  <2>4. QED
    BY <1>0, <2>2, <2>3
<1>8. CASE Head(calls) = "StartMsi"
  <2> DEFINE l == IF hw.source = "MSI" THEN MsiLatency ELSE hw.latency
  <2>1. l \in 0..4
    BY <1>r DEF MsiLatency, Registers
  <2>2. hw' = [hw EXCEPT !.msiOn = TRUE, !.msi = Msi(goal), !.latency = l]
    BY <1>r, <1>8 DEF Effect, Registers
  <2>3. goal \in {8, 2} /\ ~hw.lpr
    BY <1>8, Before
  <2>4. Msi(goal) = goal /\ Msi(goal) \in {2, 8}
    BY <2>3 DEF Msi
  <2> HIDE DEF l
  <2>5. hw' \in Registers /\ Same(hw, hw') /\ hw'.latency = l /\ hw'.source = hw.source
          /\ hw'.msi = Msi(goal) /\ hw'.msiOn
    BY ONLY <1>r, <2>1, <2>2, <2>4, SetMsi
  <2>6. ~hw'.lpr /\ (hw'.pllOn <=> hw.pllOn)
    BY <2>3, <2>5 DEF Same
  <2>7. CASE hw.source = "MSI"
    <3>1. hw'.source = "MSI" /\ hw'.msi = goal /\ hw'.latency = MsiLatency /\ hw'.range = hw.range
            /\ hw.range \in {1, 2}
      BY <1>r, <2>4, <2>5, <2>7 DEF Same, l, Registers
    <3>2. QED
      BY <2>3, <2>4, <2>5, <2>6, <3>1 DEF MsiLatency
  <2>8. CASE hw.source = "PLL"
    <3>1. hw'.source = "PLL" /\ hw'.latency = hw.latency /\ hw'.range = hw.range
      BY <2>5, <2>8 DEF Same, l
    <3>2. QED
      BY <1>0, <2>5, <2>6, <2>8, <3>1
  <2>9. QED
    BY <1>r, <2>7, <2>8 DEF Registers
<1>9. CASE Head(calls) = "UsePll"
  <2>1. hw' = [hw EXCEPT !.source = "PLL", !.latency = 4]
    BY <1>9 DEF Effect
  <2>2. hw.range = 1 /\ hw.pllOn /\ ~hw.lpr
    BY <1>9, Before
  <2>3. hw' \in Registers /\ Same(hw, hw') /\ hw'.source = "PLL" /\ hw'.latency = 4
    BY ONLY <1>r, <2>1, "PLL" \in {"MSI", "PLL"}, 4 \in 0..4, SetSource
  <2>4. ~hw'.lpr /\ hw'.pllOn /\ hw'.range = 1
    BY <2>2, <2>3 DEF Same
  <2>5. QED
    BY <2>3, <2>4
<1>10. CASE Head(calls) = "UseMsi"
  <2>1. hw' = [hw EXCEPT !.source = "MSI", !.latency = Latency(goal)]
    BY <1>10 DEF Effect
  <2>2. goal \in {8, 2} /\ hw.msi = goal /\ ~hw.lpr /\ hw.msiOn
    BY <1>10, Before
  <2>3. Latency(goal) \in 0..4
    BY DEF Latency
  <2>4. hw' \in Registers /\ Same(hw, hw') /\ hw'.source = "MSI" /\ hw'.latency = Latency(goal)
          /\ hw'.msi = hw.msi /\ hw'.msiOn = hw.msiOn
    BY ONLY <1>r, <2>1, <2>3, "MSI" \in {"MSI", "PLL"}, SetSource
  <2>5. ~hw'.lpr /\ hw'.msiOn /\ hw'.msi = goal
    BY <2>2, <2>4 DEF Same
  <2>6. QED
    BY <2>2, <2>4, <2>5 DEF Latency
<1>11. QED
  BY Before, <1>1, <1>2, <1>3, <1>4, <1>5, <1>6, <1>7, <1>8, <1>9, <1>10

\* More wait states than before are safe.
LEMMA MoreLatency ==
    ASSUME hw \in Registers, SafeClock, NEW l \in 0..4, l >= hw.latency,
           hw' = [hw EXCEPT !.latency = l]
    PROVE  hw' \in Registers /\ SafeClock'
<1>1. hw' \in Registers /\ Same(hw, hw') /\ hw'.latency = l /\ hw'.source = hw.source
        /\ hw'.msi = hw.msi /\ hw'.msiOn = hw.msiOn
  BY ONLY hw \in Registers, l \in 0..4, hw' = [hw EXCEPT !.latency = l], SetLatency
<1>2. (hw'.lpr <=> hw.lpr) /\ (hw'.pllOn <=> hw.pllOn) /\ (hw'.msiOn <=> hw.msiOn) /\ hw'.range = hw.range
  BY <1>1 DEF Same
<1>3. SysClock' = SysClock
  BY <1>1 DEF SysClock
<1>4. WaitStates(SysClock', hw'.range) = WaitStates(SysClock, hw.range)
  BY <1>2, <1>3
<1>5. WaitStates(SysClock, hw.range) \in {0, 1, 4} /\ hw.latency \in 0..4
  BY DEF WaitStates, Registers
<1>6. QED
  BY <1>1, <1>2, <1>3, <1>4, <1>5 DEF SafeClock

LEMMA PartialIsSafe ==
    ASSUME TreeInv, phase \in {"config", "switch"}, calls # <<>>, hw' \in Partial(Head(calls))
    PROVE  hw' \in Registers /\ SafeClock'
<1>r. hw \in Registers /\ SafeClock
  BY DEF TreeInv
<1>1. CASE hw' = hw
  BY <1>r, <1>1 DEF SafeClock, SysClock, WaitStates
<1>2. CASE hw' = Effect(Head(calls))
  BY <1>2, EffectIsSafe
<1>3. CASE Head(calls) = "UsePll" /\ hw' = [hw EXCEPT !.latency = 4]
  BY <1>r, <1>3, MoreLatency DEF Registers
<1>4. CASE Head(calls) = "UseMsi" /\ hw' = [hw EXCEPT !.source = "MSI"]
  <2>1. hw' \in Registers /\ Same(hw, hw') /\ hw'.source = "MSI" /\ hw'.latency = hw.latency
          /\ hw'.msi = hw.msi /\ hw'.msiOn = hw.msiOn
    BY <1>r, <1>4 DEF Registers, Same
  <2>2. goal \in {8, 2} /\ hw.msi = goal /\ ~hw.lpr /\ hw.msiOn
    BY <1>4, Before
  <2>3. ~hw'.lpr /\ hw'.msiOn /\ hw'.msi = goal /\ hw'.range = hw.range
    BY <2>1, <2>2 DEF Same
  <2>4. hw.latency >= (IF hw.range = 1 THEN 0 ELSE IF goal = 8 THEN 1 ELSE 0)
    BY <1>r, <2>2 DEF SafeClock, SysClock, WaitStates, Registers
  <2>5. QED
    BY <2>1, <2>2, <2>3, <2>4 DEF SafeClock, SysClock, WaitStates
<1>5. CASE /\ Head(calls) = "UseMsi"
           /\ \E l \in {Latency(goal)} \cap {n \in 0..4 : n > hw.latency} : hw' = [hw EXCEPT !.latency = l]
  <2>1. PICK l \in 0..4 : l > hw.latency /\ hw' = [hw EXCEPT !.latency = l]
    BY <1>5
  <2>2. l >= hw.latency
    BY <1>r, <2>1 DEF Registers
  <2>3. QED
    BY <1>r, <2>1, <2>2, MoreLatency
<1>6. CASE Head(calls) = "StartMsi" /\ hw' = [hw EXCEPT !.msiOn = TRUE]
  <2>1. /\ hw' \in Registers /\ hw'.source = hw.source /\ hw'.msi = hw.msi /\ hw'.pllOn = hw.pllOn
        /\ hw'.range = hw.range /\ hw'.lpr = hw.lpr /\ hw'.latency = hw.latency /\ hw'.msiOn = TRUE
    BY <1>r, <1>6 DEF Registers
  <2> QED
    BY <1>r, <2>1 DEF SafeClock, SysClock, WaitStates
<1>7. CASE /\ Head(calls) = "StartMsi" /\ hw.source = "MSI" /\ Msi(goal) > hw.msi
           /\ hw' = [hw EXCEPT !.latency = MsiLatency]
  <2>1. hw' \in Registers /\ Same(hw, hw') /\ hw'.source = "MSI" /\ hw'.latency = MsiLatency
          /\ hw'.msi = hw.msi /\ hw'.msiOn = hw.msiOn
    <3>1. MsiLatency \in 0..4
      BY DEF MsiLatency
    <3>2. hw' = [hw EXCEPT !.latency = MsiLatency] /\ hw.source = "MSI" /\ hw \in Registers
      BY <1>r, <1>7
    <3>3. QED
      BY ONLY <3>1, <3>2, SetLatency
  <2>2. hw.msi \in {2, 4}
    BY <1>r, <1>7 DEF Registers, Msi
  <2>3. ~hw'.lpr /\ hw'.msiOn /\ hw'.range = hw.range
    <3>1. ~hw.lpr /\ hw.msiOn
      BY <1>r, <1>7, Before DEF SafeClock
    <3>2. QED
      BY <2>1, <3>1 DEF Same
  <2>4. hw'.latency >= 0
    BY <2>1 DEF MsiLatency
  <2>5. QED
    BY <2>1, <2>2, <2>3, <2>4 DEF SafeClock, SysClock, WaitStates
<1>8. CASE /\ Head(calls) = "StartMsi" /\ hw.source = "MSI" /\ ~(Msi(goal) > hw.msi)
           /\ hw' = [hw EXCEPT !.msi = Msi(goal)]
  <2>1. goal \in {8, 2} /\ Msi(goal) = goal /\ ~hw.lpr
    BY <1>8, Before DEF Msi
  <2>2. hw' \in Registers /\ Same(hw, hw') /\ hw'.source = "MSI" /\ hw'.latency = hw.latency
          /\ hw'.msi = goal /\ hw'.msiOn = hw.msiOn
    BY <1>r, <1>8, <2>1 DEF Registers, Same
  <2>3. ~hw'.lpr /\ hw'.msiOn /\ hw'.range = hw.range
    <3>1. ~hw.lpr /\ hw.msiOn
      BY <1>r, <1>8, Before DEF SafeClock
    <3>2. QED
      BY <2>2, <3>1 DEF Same
  <2>4. hw.latency >= (IF hw.range = 1 THEN 0 ELSE IF goal = 8 THEN 1 ELSE 0)
    <3>1. goal <= hw.msi /\ hw.msi \in {2, 4, 8} /\ hw.latency \in 0..4
      BY <1>r, <1>8, <2>1 DEF Registers
    <3>2. hw.latency >= WaitStates(hw.msi, hw.range)
      BY <1>r, <1>8 DEF SafeClock, SysClock
    <3>3. QED
      BY <2>1, <3>1, <3>2 DEF WaitStates
  <2>5. QED
    BY <2>1, <2>2, <2>3, <2>4 DEF SafeClock, SysClock, WaitStates
<1>9. QED
  BY <1>1, <1>2, <1>3, <1>4, <1>5, <1>6, <1>7, <1>8 DEF Partial

-----------------------------------------------------------------------------
(* Each call establishes its part of the tree, and keeps the others *)

HalCalls == {"LeaveLpr", "Range1", "StartPll", "UsePll", "StopMsi", "StartMsi", "UseMsi", "StopPll",
             "Range2", "EnterLpr"}

LEMMA EffectFields ==
    ASSUME hw \in Registers, NEW c \in HalCalls, goal \in Goals, hw' = Effect(c)
    PROVE  /\ c \notin {"LeaveLpr", "EnterLpr"} => hw'.lpr = hw.lpr
           /\ c = "LeaveLpr" => ~hw'.lpr
           /\ c \notin {"Range1", "Range2"} => hw'.range = hw.range
           /\ c = "Range1" => hw'.range = 1
           /\ c \notin {"StartPll", "StopPll"} => hw'.pllOn = hw.pllOn
           /\ c = "StartPll" => hw'.pllOn
           /\ c \notin {"StartMsi", "StopMsi"} => hw'.msiOn = hw.msiOn
           /\ c = "StartMsi" => hw'.msiOn /\ hw'.msi = Msi(goal)
           /\ c # "StartMsi" => hw'.msi = hw.msi
           /\ c \notin {"UsePll", "UseMsi"} => hw'.source = hw.source
           /\ c = "UsePll" => hw'.source = "PLL"
           /\ c = "UseMsi" => hw'.source = "MSI" /\ hw'.latency = Latency(goal)
           /\ c \notin {"UsePll", "UseMsi", "StartMsi"} => hw'.latency = hw.latency
<1>1. CASE c = "LeaveLpr"
  <2>1. hw' = [hw EXCEPT !.lpr = FALSE]
    BY <1>1 DEF Effect
  <2>2. QED
    BY <1>1, <2>1 DEF Registers
<1>2. CASE c = "EnterLpr"
  <2>1. hw' = [hw EXCEPT !.lpr = TRUE]
    BY <1>2 DEF Effect
  <2>2. QED
    BY <1>2, <2>1 DEF Registers
<1>3. CASE c = "Range1"
  <2>1. hw' = [hw EXCEPT !.range = 1]
    BY <1>3 DEF Effect
  <2>2. QED
    BY <1>3, <2>1 DEF Registers
<1>4. CASE c = "Range2"
  <2>1. hw' = [hw EXCEPT !.range = 2]
    BY <1>4 DEF Effect
  <2>2. QED
    BY <1>4, <2>1 DEF Registers
<1>5. CASE c = "StartPll"
  <2>1. hw' = [hw EXCEPT !.pllOn = TRUE]
    BY <1>5 DEF Effect
  <2>2. QED
    BY <1>5, <2>1 DEF Registers
<1>6. CASE c = "StopPll"
  <2>1. hw' = [hw EXCEPT !.pllOn = FALSE]
    BY <1>6 DEF Effect
  <2>2. QED
    BY <1>6, <2>1 DEF Registers
<1>7. CASE c = "StopMsi"
  <2>1. hw' = [hw EXCEPT !.msiOn = FALSE]
    BY <1>7 DEF Effect
  <2>2. QED
    BY <1>7, <2>1 DEF Registers
<1>8. CASE c = "StartMsi"
  <2> DEFINE l == IF hw.source = "MSI" THEN MsiLatency ELSE hw.latency
  <2>1. l \in 0..4 /\ Msi(goal) \in {2, 8}
    BY DEF MsiLatency, Registers, Msi
  <2>2. hw' = [hw EXCEPT !.msiOn = TRUE, !.msi = Msi(goal), !.latency = l]
    BY <1>8 DEF Effect, Registers
  <2> HIDE DEF l
  <2>3. Same(hw, hw') /\ hw'.source = hw.source /\ hw'.msi = Msi(goal) /\ hw'.msiOn
    BY ONLY hw \in Registers, <2>1, <2>2, SetMsi
  <2>4. QED
    BY <1>8, <2>3 DEF Same
<1>9. CASE c = "UsePll"
  <2>1. hw' = [hw EXCEPT !.source = "PLL", !.latency = 4]
    BY <1>9 DEF Effect
  <2>2. Same(hw, hw') /\ hw'.source = "PLL" /\ hw'.msi = hw.msi /\ hw'.msiOn = hw.msiOn
    BY ONLY hw \in Registers, <2>1, "PLL" \in {"MSI", "PLL"}, 4 \in 0..4, SetSource
  <2>3. QED
    BY <1>9, <2>2 DEF Same
<1>10. CASE c = "UseMsi"
  <2>1. hw' = [hw EXCEPT !.source = "MSI", !.latency = Latency(goal)]
    BY <1>10 DEF Effect
  <2>2. Latency(goal) \in 0..4
    BY DEF Latency
  <2>3. Same(hw, hw') /\ hw'.source = "MSI" /\ hw'.latency = Latency(goal) /\ hw'.msi = hw.msi
          /\ hw'.msiOn = hw.msiOn
    BY ONLY hw \in Registers, <2>1, <2>2, "MSI" \in {"MSI", "PLL"}, SetSource
  <2>4. QED
    BY <1>10, <2>3 DEF Same
<1>11. QED
  BY <1>1, <1>2, <1>3, <1>4, <1>5, <1>6, <1>7, <1>8, <1>9, <1>10 DEF HalCalls

\* What is left of the calls, after one of them.
LEMMA OneCallLess ==
    ASSUME Programs, phase \in {"config", "switch"}, calls # <<>>, calls' = Tail(calls),
           UNCHANGED <<phase, goal>>
    PROVE  /\ Programs'
           /\ \A c : Left(c)' <=> Left(c) /\ c # Head(calls)
<1>1. CASE phase = "config"
  <2>1. calls \in ConfigRest(goal) /\ goal \in Goals
    BY <1>1 DEF Programs
  <2>2. calls' \in ConfigRest(goal) /\ \A c : In(c, calls') <=> In(c, calls) /\ c # Head(calls)
    BY <2>1, ConfigOrder
  <2>3. QED
    BY <1>1, <2>1, <2>2 DEF Programs, Left
<1>2. CASE phase = "switch"
  <2>1. calls \in SwitchRest(goal) /\ goal \in Goals
    BY <1>2 DEF Programs
  <2>2. calls' \in SwitchRest(goal) /\ \A c : In(c, calls') <=> In(c, calls) /\ c # Head(calls)
    BY <2>1, SwitchOrder
  <2>3. QED
    BY <1>2, <2>1, <2>2 DEF Programs, Left
<1>3. QED
  BY <1>1, <1>2

\* A call that takes effect, or whose failure is ignored, keeps the tree.
LEMMA TreeKept ==
    ASSUME TreeInv, phase \in {"config", "switch"}, calls # <<>>, calls' = Tail(calls),
           UNCHANGED <<phase, goal>>,
           hw' = Effect(Head(calls)) \/ (Head(calls) \in Ignored /\ hw' = hw)
    PROVE  Tree'
<1> DEFINE c == Head(calls)
<1>1. hw \in Registers /\ Programs /\ Tree /\ goal \in Goals /\ c \in HalCalls
  BY Before DEF TreeInv, Programs, HalCalls
<1>2. \A d : Left(d)' <=> Left(d) /\ d # c
  BY <1>1, OneCallLess
<1> HIDE DEF c
<1>3. /\ c \notin {"LeaveLpr", "EnterLpr"} => hw'.lpr = hw.lpr
      /\ c = "LeaveLpr" => ~hw'.lpr
      /\ c \notin {"Range1", "Range2"} => hw'.range = hw.range
      /\ c = "Range1" => hw'.range = 1
      /\ c \notin {"StartPll", "StopPll"} => hw'.pllOn = hw.pllOn
      /\ c = "StartPll" => hw'.pllOn
      /\ c \notin {"StartMsi", "StopMsi"} => hw'.msiOn = hw.msiOn
      /\ c = "StartMsi" => hw'.msiOn /\ hw'.msi = Msi(goal)
      /\ c # "StartMsi" => hw'.msi = hw.msi
      /\ c \notin {"UsePll", "UseMsi"} => hw'.source = hw.source
      /\ c = "UsePll" => hw'.source = "PLL"
      /\ c = "UseMsi" => hw'.source = "MSI" /\ hw'.latency = Latency(goal)
      /\ c \notin {"UsePll", "UseMsi", "StartMsi"} => hw'.latency = hw.latency
  <2>1. CASE hw' = Effect(c)
    BY <1>1, <2>1, EffectFields
  <2>2. CASE c \in Ignored /\ hw' = hw
    BY <2>2 DEF Ignored
  <2>3. QED
    BY <2>1, <2>2 DEF c
<1>4. /\ c \in {"Range1", "StartPll", "UsePll", "StopMsi"} => goal = 80
      /\ c \in {"StartMsi", "UseMsi", "StopPll", "Range2", "EnterLpr"} => goal # 80
      /\ c = "EnterLpr" => Tail(calls) = <<>>
      /\ c # "LeaveLpr" => ~hw.lpr
  BY Before DEF c
<1>5. /\ Left(c)
      /\ c = "StartMsi" => Left("UseMsi")'
      /\ phase = "config" => c # "LeaveLpr" /\ ~Left("Range2")'
  <2>1. CASE phase = "config"
    <3>1. calls \in ConfigRest(goal)
      BY <1>1, <2>1 DEF Programs
    <3>2. QED
      BY <1>1, <2>1, <3>1, ConfigOrder DEF Left, c
  <2>2. CASE phase = "switch"
    <3>1. calls \in SwitchRest(goal)
      BY <1>1, <2>2 DEF Programs
    <3>2. QED
      BY <1>1, <2>2, <3>1, SwitchOrder DEF Left, c
  <2>3. QED
    BY <2>1, <2>2
<1>6. phase' = "config" => (goal' # 80 => hw'.source = "MSI") /\ (Left("Range2")' => hw'.msi = 4)
  BY <1>1, <1>3, <1>4, <1>5 DEF Tree
<1>7. hw'.lpr => Left("LeaveLpr")' \/ calls' = <<>>
  BY <1>2, <1>3, <1>4
<1>8. goal' = 80 => /\ Left("Range1")' \/ hw'.range = 1
                    /\ Left("StartPll")' \/ hw'.pllOn
                    /\ Left("UsePll")' \/ hw'.source = "PLL"
  <2>1. SUFFICES ASSUME goal = 80 PROVE /\ Left("Range1")' \/ hw'.range = 1
                                        /\ Left("StartPll")' \/ hw'.pllOn
                                        /\ Left("UsePll")' \/ hw'.source = "PLL"
    OBVIOUS
  <2>2. /\ Left("Range1") \/ hw.range = 1
        /\ Left("StartPll") \/ hw.pllOn
        /\ Left("UsePll") \/ hw.source = "PLL"
    BY <1>1, <2>1 DEF Tree
  <2>3. Left("Range1")' \/ hw'.range = 1
    BY <1>2, <1>3, <1>4, <2>1, <2>2
  <2>4. Left("StartPll")' \/ hw'.pllOn
    BY <1>2, <1>3, <1>4, <2>1, <2>2
  <2>5. Left("UsePll")' \/ hw'.source = "PLL"
    BY <1>2, <1>3, <1>4, <2>1, <2>2
  <2>6. QED
    BY <2>3, <2>4, <2>5
<1>9. goal' # 80 => /\ Left("StartMsi")' \/ (hw'.msi = goal' /\ hw'.msiOn)
                    /\ Left("UseMsi")' \/ (hw'.source = "MSI" /\ hw'.latency = Latency(goal'))
  <2>1. SUFFICES ASSUME goal # 80
                 PROVE  /\ Left("StartMsi")' \/ (hw'.msi = goal /\ hw'.msiOn)
                        /\ Left("UseMsi")' \/ (hw'.source = "MSI" /\ hw'.latency = Latency(goal))
    OBVIOUS
  <2>2. /\ Left("StartMsi") \/ (hw.msi = goal /\ hw.msiOn)
        /\ Left("UseMsi") \/ (hw.source = "MSI" /\ hw.latency = Latency(goal))
    BY <1>1, <2>1 DEF Tree
  <2>3. Msi(goal) = goal
    BY <1>1, <2>1 DEF Msi, Goals
  <2>4. Left("StartMsi")' \/ hw'.msi = goal
    BY <1>2, <1>3, <1>4, <2>1, <2>2, <2>3
  <2>5. Left("StartMsi")' \/ hw'.msiOn
    BY <1>2, <1>3, <1>4, <2>1, <2>2
  <2>6. Left("UseMsi")' \/ (hw'.source = "MSI" /\ hw'.latency = Latency(goal))
    BY <1>2, <1>3, <1>4, <1>5, <2>1, <2>2
  <2>7. QED
    BY <2>4, <2>5, <2>6
<1>10. phase' # "reset"
  OBVIOUS
<1>11. QED
  BY <1>6, <1>7, <1>8, <1>9, <1>10 DEF Tree

-----------------------------------------------------------------------------
(* The tree in every state *)

LEMMA SameHw == ASSUME UNCHANGED hw, SafeClock PROVE SafeClock'
BY DEF SafeClock, SysClock, WaitStates

LEMMA AtReset ==
    ASSUME hw = ResetRegisters
    PROVE  /\ hw \in Registers /\ SafeClock /\ hw.source = "MSI" /\ hw.msi = 4 /\ ~hw.lpr
BY DEF ResetRegisters, Registers, SafeClock, SysClock, WaitStates

LEMMA AfterReset ==
    ASSUME hw' = ResetRegisters
    PROVE  hw' \in Registers /\ SafeClock'
BY DEF ResetRegisters, Registers, SafeClock, SysClock, WaitStates

LEMMA GoalOf == \A s : FreqFor(s) \in Goals
BY DEF FreqFor, Goals

LEMMA InitTree == Init => TreeInv
<1> SUFFICES ASSUME Init PROVE TreeInv
  OBVIOUS
<1>1. hw \in Registers /\ SafeClock
  BY AtReset DEF Init
<1>2. Programs
  BY DEF Init, Programs, Goals
<1>3. Tree
  BY DEF Init, Tree
<1>4. QED
  BY <1>1, <1>2, <1>3 DEF TreeInv

LEMMA RestartTree == ASSUME Restart PROVE TreeInv'
<1>1. hw' \in Registers /\ SafeClock'
  BY AfterReset DEF Restart
<1>2. Programs' /\ Tree'
  BY DEF Restart, Programs, Tree, Goals
<1>3. QED
  BY <1>1, <1>2 DEF TreeInv

\* A step that leaves the clock tree alone, to a function that makes no call on it.
LEMMA ElsewhereTree ==
    ASSUME TreeInv, Programs', UNCHANGED hw, phase' \notin {"reset", "config", "switch"}
    PROVE  TreeInv'
BY SameHw DEF TreeInv, Tree

LEMMA NextTree == TreeInv /\ [Next]_vars => TreeInv'
<1> SUFFICES ASSUME TreeInv, [Next]_vars PROVE TreeInv'
  OBVIOUS
<1>1. CASE Main
  <2>1. hw = ResetRegisters /\ UNCHANGED hw /\ hw' \in Registers /\ SafeClock'
    BY <1>1, AtReset, SameHw DEF Main, TreeInv, Tree
  <2>2. goal' \in Goals /\ calls' = ConfigCalls(goal') /\ phase' = "config"
    BY <1>1, GoalOf DEF Main
  <2>3. Programs'
    BY <2>2, Starts DEF Programs
  <2>4. hw'.source = "MSI" /\ hw'.msi = 4 /\ ~hw'.lpr
    BY <2>1, AtReset
  <2>5. /\ goal' = 80 => Left("Range1")' /\ Left("StartPll")' /\ Left("UsePll")'
        /\ goal' # 80 => Left("StartMsi")' /\ Left("UseMsi")'
    BY <2>2, Starts DEF Left
  <2>6. Tree'
    BY <2>2, <2>4, <2>5 DEF Tree
  <2>7. QED
    BY <2>1, <2>3, <2>6 DEF TreeInv
<1>2. CASE ClockCall
  <2>1. /\ phase \in {"config", "switch"} /\ calls # <<>> /\ calls' = Tail(calls)
        /\ hw' = Effect(Head(calls)) /\ UNCHANGED <<phase, goal>>
    BY <1>2 DEF ClockCall
  <2>2. hw' \in Registers /\ SafeClock'
    BY <2>1, EffectIsSafe
  <2>3. Programs'
    BY <2>1, OneCallLess DEF TreeInv
  <2>4. Tree'
    BY <2>1, TreeKept
  <2>5. QED
    BY <2>2, <2>3, <2>4 DEF TreeInv
<1>3. CASE ClockFailure
  <2>1. /\ phase \in {"config", "switch"} /\ calls # <<>> /\ hw' \in Partial(Head(calls))
        /\ UNCHANGED goal
    BY <1>3 DEF ClockFailure
  <2>2. hw' \in Registers /\ SafeClock'
    BY <2>1, PartialIsSafe
  <2>3. CASE Head(calls) \in Ignored
    <3>1. calls' = Tail(calls) /\ UNCHANGED <<phase, goal>>
      BY <1>3, <2>3 DEF ClockFailure
    <3>2. hw' = Effect(Head(calls)) \/ hw' = hw
      BY <2>1, <2>3 DEF Partial, Ignored
    <3>3. Programs'
      BY <2>1, <3>1, OneCallLess DEF TreeInv
    <3>4. Tree'
      BY <2>1, <2>3, <3>1, <3>2, TreeKept
    <3>5. QED
      BY <2>2, <3>3, <3>4 DEF TreeInv
  <2>4. CASE Head(calls) \notin Ignored
    <3>1. \/ phase' = "halt" /\ calls' = <<>>
          \/ phase' = "reconfigure" /\ calls' = ReconfigureCalls
      BY <1>3, <2>4 DEF ClockFailure, FailFunction
    <3>2. Programs' /\ Tree'
      BY <2>1, <3>1, PeripheralStarts DEF Programs, Tree, TreeInv
    <3>3. QED
      BY <2>2, <3>2 DEF TreeInv
  <2>5. QED
    BY <2>3, <2>4
<1>4. CASE Configured
  <2>1. UNCHANGED <<hw, goal>> /\ phase' = "init" /\ calls' = InitCalls
    BY <1>4 DEF Configured
  <2>2. Programs'
    BY <2>1, PeripheralStarts DEF TreeInv, Programs
  <2>3. QED
    BY <2>1, <2>2, ElsewhereTree
<1>5. CASE PeripheralCall
  <2>1. /\ phase \in {"init", "reconfigure"} /\ calls # <<>> /\ calls' = Tail(calls)
        /\ UNCHANGED <<hw, goal, phase>>
    BY <1>5 DEF PeripheralCall
  <2>2. Programs'
    BY <2>1, InitOrder, ReconfigureOrder DEF TreeInv, Programs
  <2>3. QED
    BY <2>1, <2>2, ElsewhereTree
<1>6. CASE PeripheralFailure
  <2>1. UNCHANGED <<hw, goal>> /\ phase' = "halt" /\ calls' = <<>>
    BY <1>6 DEF PeripheralFailure
  <2>2. Programs'
    BY <2>1 DEF TreeInv, Programs
  <2>3. QED
    BY <2>1, <2>2, ElsewhereTree
<1>7. CASE Initialised \/ Reconfigured
  <2>1. UNCHANGED <<hw, goal, calls>> /\ phase' = "idle" /\ calls = <<>>
    BY <1>7 DEF Initialised, Reconfigured
  <2>2. Programs'
    BY <2>1 DEF TreeInv, Programs
  <2>3. QED
    BY <2>1, <2>2, ElsewhereTree
<1>8. CASE Switched
  <2>1. UNCHANGED <<hw, goal>> /\ phase' = "reconfigure" /\ calls' = ReconfigureCalls
    BY <1>8 DEF Switched
  <2>2. Programs'
    BY <2>1, PeripheralStarts DEF TreeInv, Programs
  <2>3. QED
    BY <2>1, <2>2, ElsewhereTree
<1>9. ASSUME NEW s \in States, ChangeState(s) PROVE TreeInv'
  <2>1. CASE FreqFor(s) # current
    <3>1. /\ phase' = "switch" /\ goal' = FreqFor(s) /\ calls' = SwitchCalls(goal') /\ UNCHANGED hw
          /\ goal' \in Goals
      BY <1>9, <2>1, GoalOf DEF ChangeState
    <3>2. hw' \in Registers /\ SafeClock'
      BY <3>1, SameHw DEF TreeInv
    <3>3. Programs'
      BY <3>1, Starts DEF Programs
    <3>4. /\ hw'.lpr => Left("LeaveLpr")'
          /\ goal' = 80 => Left("Range1")' /\ Left("StartPll")' /\ Left("UsePll")'
          /\ goal' # 80 => Left("StartMsi")' /\ Left("UseMsi")'
      BY <3>1, Starts DEF Left
    <3>5. Tree'
      BY <3>1, <3>4 DEF Tree
    <3>6. QED
      BY <3>2, <3>3, <3>5 DEF TreeInv
  <2>2. CASE ~(FreqFor(s) # current)
    <3>1. UNCHANGED <<hw, goal, calls, phase>> /\ phase = "idle"
      BY <1>9, <2>2 DEF ChangeState
    <3>2. Programs'
      BY <3>1 DEF TreeInv, Programs
    <3>3. QED
      BY <3>1, <3>2, ElsewhereTree
  <2>3. QED
    BY <2>1, <2>2
<1>10. CASE Bite \/ Reset
  BY <1>10, RestartTree DEF Bite, Reset
<1>11. CASE UNCHANGED vars
  <2>1. UNCHANGED <<hw, goal, calls, phase>>
    BY <1>11 DEF vars, software
  <2>2. QED
    BY <2>1, SameHw DEF TreeInv, Programs, Tree, Left
<1>12. CASE Dead
  BY <1>11, <1>12 DEF Dead
<1>13. QED
  BY <1>1, <1>2, <1>3, <1>4, <1>5, <1>6, <1>7, <1>8, <1>9, <1>10, <1>11, <1>12 DEF Next

\* Whatever call on the clock tree fails, with any part of its effect, and whenever the
\* processor is reset, it never runs faster than its voltage, regulator and wait states allow.
THEOREM SafeClockHolds == Spec => []SafeClock
<1>1. TreeInv => SafeClock
  BY DEF TreeInv
<1>2. QED
  BY InitTree, NextTree, <1>1, PTL DEF Spec


-----------------------------------------------------------------------------
(* What every step agrees on *)

\* Between a reset or a successful change of frequency and the end of the function that
\* follows, the clock is the goal's, and each peripheral is set for it or left to be.
SetOrLeft == \A p \in Peripherals : Left(p) \/ setFor[p] = goal

Agree ==
    /\ phase = "reset" => ~stale /\ state = saved /\ next = saved
    /\ phase \in {"config", "init"} => ~stale /\ state = saved /\ next = saved /\ goal = FreqFor(saved)
    /\ phase = "init" => SysClock = goal /\ current = goal /\ SetOrLeft
    /\ phase = "switch" => goal = FreqFor(next)
    /\ phase = "reconfigure" /\ ~stale =>
           SysClock = goal /\ current = goal /\ goal = FreqFor(next) /\ SetOrLeft
    /\ ClockAgrees

IInv == TreeInv /\ Agree

\* The program of a frequency, once made, has set it.
LEMMA ProgramDone ==
    ASSUME TreeInv, phase \in {"config", "switch"}, calls = <<>>
    PROVE  SysClock = goal
<1>1. \A c : ~Left(c)
  BY NothingIn DEF Left
<1>2. goal \in Goals
  BY DEF TreeInv, Programs
<1>3. CASE goal = 80
  BY <1>1, <1>3 DEF TreeInv, Tree, SysClock
<1>4. CASE goal # 80
  BY <1>1, <1>4 DEF TreeInv, Tree, SysClock
<1>5. QED
  BY <1>3, <1>4

LEMMA InitAgree == Init => Agree
BY DEF Init, Agree, ClockAgrees

LEMMA NextAgree == IInv /\ [Next]_vars => Agree'
<1> SUFFICES ASSUME TreeInv, Agree, [Next]_vars PROVE Agree'
  BY DEF IInv
<1>1. CASE Main
  BY <1>1 DEF Main, Agree, ClockAgrees
<1>2. CASE ClockCall
  <2>1. phase' \in {"config", "switch"} /\ UNCHANGED <<phase, goal, next, state, saved, stale>>
    BY <1>2 DEF ClockCall
  <2>2. QED
    BY <2>1 DEF Agree, ClockAgrees
<1>3. CASE ClockFailure
  <2>1. phase \in {"config", "switch"} /\ UNCHANGED <<goal, next, state, saved>>
    BY <1>3 DEF ClockFailure
  <2>2. CASE Head(calls) \in Ignored
    <3>1. UNCHANGED <<phase, stale>>
      BY <1>3, <2>2 DEF ClockFailure
    <3>2. QED
      BY <2>1, <3>1 DEF Agree, ClockAgrees
  <2>3. CASE Head(calls) \notin Ignored
    <3>1. phase' = "halt" \/ (phase' = "reconfigure" /\ stale' = TRUE)
      BY <1>3, <2>3 DEF ClockFailure, FailFunction
    <3>2. QED
      BY <3>1 DEF Agree, ClockAgrees
  <2>4. QED
    BY <2>2, <2>3
<1>4. CASE Configured
  <2>1. /\ phase = "config" /\ calls = <<>> /\ phase' = "init" /\ calls' = InitCalls /\ current' = goal
        /\ UNCHANGED <<goal, next, state, saved, hw, stale>>
    BY <1>4 DEF Configured
  <2>2. SysClock' = goal'
    BY <2>1, ProgramDone DEF SysClock
  <2>3. SetOrLeft'
    BY <2>1, PeripheralStarts DEF SetOrLeft, Left
  <2>4. QED
    BY <2>1, <2>2, <2>3 DEF Agree, ClockAgrees
<1>5. CASE PeripheralCall
  <2>1. /\ phase \in {"init", "reconfigure"} /\ calls # <<>> /\ calls' = Tail(calls)
        /\ UNCHANGED <<phase, goal, next, state, saved, current, hw, stale>>
    BY <1>5 DEF PeripheralCall
  <2>2. setFor' = [p \in Peripherals |->
                     IF p # Head(calls) THEN setFor[p] ELSE IF p = "uart4" THEN SysClock ELSE goal]
    BY <1>5 DEF PeripheralCall
  <2>3. \A c : Left(c)' <=> Left(c) /\ c # Head(calls)
    BY <2>1, InitOrder, ReconfigureOrder DEF TreeInv, Programs, Left
  <2>4. SysClock' = SysClock
    BY <2>1 DEF SysClock
  <2>5. SysClock = goal /\ SetOrLeft => SetOrLeft'
    BY <2>1, <2>2, <2>3 DEF SetOrLeft
  <2>6. QED
    BY <2>1, <2>4, <2>5 DEF Agree, ClockAgrees
<1>6. CASE PeripheralFailure
  BY <1>6 DEF PeripheralFailure, Agree, ClockAgrees
<1>7. CASE Initialised
  <2>1. /\ phase = "init" /\ calls = <<>> /\ phase' = "idle"
        /\ UNCHANGED <<goal, next, state, saved, current, hw, stale, setFor>>
    BY <1>7 DEF Initialised
  <2>2. \A p \in Peripherals : setFor[p] = goal
    BY <2>1, NothingIn DEF Agree, SetOrLeft, Left
  <2>3. SysClock' = SysClock
    BY <2>1 DEF SysClock
  <2>4. SysClock = goal /\ current = goal /\ goal = FreqFor(state) /\ ~stale
    BY <2>1 DEF Agree
  <2>5. ClockAgrees'
    BY <2>1, <2>2, <2>3, <2>4 DEF ClockAgrees
  <2>6. QED
    BY <2>1, <2>5 DEF Agree
<1>8. CASE Switched
  <2>1. /\ phase = "switch" /\ calls = <<>> /\ phase' = "reconfigure" /\ calls' = ReconfigureCalls
        /\ current' = goal /\ UNCHANGED <<goal, next, hw>>
    BY <1>8 DEF Switched
  <2>2. SysClock' = goal'
    BY <2>1, ProgramDone DEF SysClock
  <2>3. SetOrLeft'
    BY <2>1, PeripheralStarts DEF SetOrLeft, Left
  <2>4. QED
    BY <2>1, <2>2, <2>3 DEF Agree, ClockAgrees
<1>9. CASE Reconfigured
  <2>1. /\ phase = "reconfigure" /\ calls = <<>> /\ phase' = "idle" /\ state' = next
        /\ UNCHANGED <<goal, next, current, hw, stale, setFor>>
    BY <1>9 DEF Reconfigured
  <2>2. ~stale => /\ \A p \in Peripherals : setFor[p] = goal
                  /\ SysClock = goal /\ current = goal /\ goal = FreqFor(next)
    BY <2>1, NothingIn DEF Agree, SetOrLeft, Left
  <2>3. SysClock' = SysClock
    BY <2>1 DEF SysClock
  <2>4. ClockAgrees'
    BY <2>1, <2>2, <2>3 DEF ClockAgrees
  <2>5. QED
    BY <2>1, <2>4 DEF Agree
<1>10. ASSUME NEW s \in States, ChangeState(s) PROVE Agree'
  <2>1. phase = "idle" /\ next' = s /\ UNCHANGED <<current, hw, setFor, stale>>
    BY <1>10 DEF ChangeState
  <2>2. SysClock' = SysClock
    BY <2>1 DEF SysClock
  <2>3. CASE FreqFor(s) # current
    <3>1. phase' = "switch" /\ goal' = FreqFor(s)
      BY <1>10, <2>3 DEF ChangeState
    <3>2. QED
      BY <2>1, <3>1 DEF Agree, ClockAgrees
  <2>4. CASE FreqFor(s) = current
    <3>1. phase' = "idle" /\ state' = s
      BY <1>10, <2>1, <2>4 DEF ChangeState
    <3>2. ClockAgrees'
      BY <2>1, <2>2, <2>4, <3>1 DEF Agree, ClockAgrees
    <3>3. QED
      BY <3>1, <3>2 DEF Agree
  <2>5. QED
    BY <2>3, <2>4
<1>11. CASE Bite \/ Reset
  <2>1. Restart
    BY <1>11 DEF Bite, Reset
  <2>2. QED
    BY <2>1 DEF Restart, Agree, ClockAgrees
<1>12. CASE UNCHANGED vars
  <2>1. UNCHANGED <<phase, calls, goal, next, state, saved, current, hw, setFor, stale>>
    BY <1>12 DEF vars, software
  <2>2. SysClock' = SysClock /\ (SetOrLeft' <=> SetOrLeft)
    BY <2>1 DEF SysClock, SetOrLeft, Left
  <2>3. QED
    BY <2>1, <2>2 DEF Agree, ClockAgrees
<1>13. CASE Dead
  BY <1>12, <1>13 DEF Dead
<1>14. QED
  BY <1>1, <1>2, <1>3, <1>4, <1>5, <1>6, <1>7, <1>8, <1>9, <1>10, <1>11, <1>12, <1>13 DEF Next

\* At rest, unless the last switch failed, the system clock, current_freq, the state of the OBC
\* and every peripheral agree on the frequency, whatever failed before: the next switch repairs it.
THEOREM ClockAgreesHolds == Spec => []ClockAgrees
<1>1. Init => IInv
  BY InitTree, InitAgree DEF IInv
<1>2. IInv /\ [Next]_vars => IInv'
  BY NextTree, NextAgree DEF IInv
<1>3. IInv => ClockAgrees
  BY DEF IInv, Agree
<1>4. QED
  BY <1>1, <1>2, <1>3, PTL DEF Spec

-----------------------------------------------------------------------------
(* The calendar of the wall clock *)

LEMMA Smallest ==
    ASSUME NEW S, S \subseteq Nat, S # {}
    PROVE  \E m \in S : \A k \in S : m <= k
<1>1. PICK m \in S : \A k \in S : <<k, m>> \notin OpToRel(<, Nat)
  BY WFMin, NatLessThanWellFounded, Zenon
<1>2. \A k \in S : ~(k < m)
  BY <1>1, Zenon DEF OpToRel
<1> QED
  BY <1>2

LEMMA LeapYears == \A y \in 2000..2099 : IsLeap(y) <=> y % 4 = 0
  BY DEF IsLeap

\* The days to a year in closed form, the witness of the recursive definition.
DaysTo == [y \in FirstYear .. LastYear + 1 |-> 365 * (y - 2000) + ((y - 1997) \div 4)]

LEMMA DaysToStep ==
    ASSUME NEW y \in 2000..2099
    PROVE  365 * (y + 1 - 2000) + ((y + 1 - 1997) \div 4)
             = 365 * (y - 2000) + ((y - 1997) \div 4) + DaysInYear(y)
<1>1. CASE y % 4 = 0
  <2>1. DaysInYear(y) = 366
    BY <1>1, LeapYears DEF DaysInYear
  <2>2. (y + 1 - 1997) \div 4 = ((y - 1997) \div 4) + 1
    BY <1>1
  <2> QED
    BY <2>1, <2>2
<1>2. CASE y % 4 # 0
  <2>1. DaysInYear(y) = 365
    BY <1>2, LeapYears DEF DaysInYear
  <2>2. (y + 1 - 1997) \div 4 = (y - 1997) \div 4
    BY <1>2
  <2> QED
    BY <2>1, <2>2
<1> QED
  BY <1>1, <1>2

LEMMA DaysToYearExists ==
    DaysToYear = [y \in FirstYear .. LastYear + 1 |->
                    IF y = FirstYear THEN 0 ELSE DaysToYear[y - 1] + DaysInYear(y - 1)]
<1> DEFINE S == FirstYear .. LastYear + 1
           h == [y \in S |-> IF y = FirstYear THEN 0 ELSE DaysTo[y - 1] + DaysInYear(y - 1)]
<1>1. ASSUME NEW y \in S, y # FirstYear
      PROVE  DaysTo[y] = DaysTo[y - 1] + DaysInYear(y - 1)
  <2>1. y - 1 \in 2000..2099 /\ y - 1 \in S /\ (y - 1) + 1 = y
    BY <1>1, YearAssumption DEF FirstYear
  <2>2. DaysTo[(y - 1) + 1] = DaysTo[y - 1] + DaysInYear(y - 1)
    BY <2>1, DaysToStep DEF DaysTo
  <2> QED
    BY <2>1, <2>2
<1>2. FirstYear \in S /\ DaysTo[FirstYear] = 0
  BY YearAssumption DEF DaysTo, FirstYear
<1>3. ASSUME NEW y \in S PROVE DaysTo[y] = h[y]
  <2>1. CASE y = FirstYear
    BY <1>2, <2>1
  <2>2. CASE y # FirstYear
    BY <1>1, <2>2
  <2> QED
    BY <2>1, <2>2
<1>4. DaysTo = [y \in S |-> DaysTo[y]] /\ h = [y \in S |-> h[y]]
  BY DEF DaysTo
<1>5. DaysTo = h
  <2> HIDE DEF S, h, DaysTo
  <2> QED
    BY <1>3, <1>4
<1> HIDE DEF DaysTo
<1> QED
  BY <1>5, Zenon DEF DaysToYear

LEMMA DaysToYearStep ==
    ASSUME NEW y \in FirstYear .. LastYear + 1
    PROVE  DaysToYear[y] = IF y = FirstYear THEN 0 ELSE DaysToYear[y - 1] + DaysInYear(y - 1)
<1> DEFINE h == [z \in FirstYear .. LastYear + 1 |->
                   IF z = FirstYear THEN 0 ELSE DaysToYear[z - 1] + DaysInYear(z - 1)]
<1>1. h[y] = IF y = FirstYear THEN 0 ELSE DaysToYear[y - 1] + DaysInYear(y - 1)
  OBVIOUS
<1>2. DaysToYear = h
  BY DaysToYearExists, Zenon
<1> HIDE DEF h
<1> QED
  BY <1>1, <1>2, Zenon

\* What the recursive definition computes is the closed form.
LEMMA DaysToYearIs ==
    \A y \in FirstYear .. LastYear + 1 :
        DaysToYear[y] = 365 * (y - 2000) + ((y - 1997) \div 4)
<1> DEFINE Wrong == {z \in FirstYear .. LastYear + 1 :
                        DaysToYear[z] # 365 * (z - 2000) + ((z - 1997) \div 4)}
<1> SUFFICES ASSUME Wrong # {} PROVE FALSE
  OBVIOUS
<1>1. PICK m \in Wrong : \A z \in Wrong : m <= z
  <2>1. Wrong \subseteq Nat /\ Wrong # {}
    BY YearAssumption DEF FirstYear
  <2> HIDE DEF Wrong
  <2> QED
    BY <2>1, Smallest, Zenon
<1>2. m # FirstYear
  BY DaysToYearStep DEF FirstYear
<1>3. m - 1 \in 2000..2099 /\ m - 1 \in FirstYear .. LastYear + 1 /\ m - 1 \notin Wrong
      /\ (m - 1) + 1 = m
  BY <1>1, <1>2, YearAssumption DEF FirstYear
<1>4. DaysToYear[m] = DaysToYear[m - 1] + DaysInYear(m - 1)
  BY <1>2, DaysToYearStep
<1>5. DaysToYear[m - 1] = 365 * (m - 1 - 2000) + ((m - 1 - 1997) \div 4)
  BY <1>3
<1>6. DaysToYear[m] = 365 * (m - 2000) + ((m - 1997) \div 4)
  <2>1. \A y \in 2000..2099 :
          365 * (y + 1 - 2000) + ((y + 1 - 1997) \div 4)
             = 365 * (y - 2000) + ((y - 1997) \div 4) + DaysInYear(y)
    BY DaysToStep
  <2>2. 365 * (m - 1 + 1 - 2000) + ((m - 1 + 1 - 1997) \div 4)
             = 365 * (m - 1 - 2000) + ((m - 1 - 1997) \div 4) + DaysInYear(m - 1)
    BY <1>3, <2>1
  <2> HIDE DEF Wrong
  <2> QED
    BY <1>3, <1>4, <1>5, <2>2
<1> QED
  BY <1>6

LEMMA MonthStarts ==
    ASSUME NEW y \in 2000..2099
    PROVE  LET leap == IF y % 4 = 0 THEN 1 ELSE 0
           IN  /\ DaysToMonth(1, y) = 0 /\ DaysToMonth(2, y) = 31
               /\ DaysToMonth(3, y) = 59 + leap /\ DaysToMonth(4, y) = 90 + leap
               /\ DaysToMonth(5, y) = 120 + leap /\ DaysToMonth(6, y) = 151 + leap
               /\ DaysToMonth(7, y) = 181 + leap /\ DaysToMonth(8, y) = 212 + leap
               /\ DaysToMonth(9, y) = 243 + leap /\ DaysToMonth(10, y) = 273 + leap
               /\ DaysToMonth(11, y) = 304 + leap /\ DaysToMonth(12, y) = 334 + leap
               /\ DaysInYear(y) = 365 + leap
  BY LeapYears DEF DaysToMonth, days_before_month, DaysInYear

\* The years the RTC counts in, and what a month and a year of them are.
Years == 2000..2099
Months == 1..12
MonthFits(m, y) ==
    /\ DaysInMonth(m, y) \in 1..31 /\ DaysToMonth(m, y) \in Nat
    /\ DaysToMonth(m, y) + DaysInMonth(m, y) =
         IF m = 12 THEN DaysInYear(y) ELSE DaysToMonth(m + 1, y)
YearFits(y) ==
    /\ DaysToYear[y] \in Nat /\ DaysInYear(y) \in 365..366
    /\ DaysToYear[y + 1] = DaysToYear[y] + DaysInYear(y)

LEMMA MonthLength ==
    ASSUME NEW y \in Years, NEW m \in Months
    PROVE  MonthFits(m, y)
<1>1. m \in {1, 2, 3, 4, 5, 6, 7, 8, 9, 10, 11, 12}
  BY DEF Months
<1>2. /\ DaysInMonth(1, y) = 31 /\ DaysInMonth(3, y) = 31 /\ DaysInMonth(4, y) = 30
      /\ DaysInMonth(5, y) = 31 /\ DaysInMonth(6, y) = 30 /\ DaysInMonth(7, y) = 31
      /\ DaysInMonth(8, y) = 31 /\ DaysInMonth(9, y) = 30 /\ DaysInMonth(10, y) = 31
      /\ DaysInMonth(11, y) = 30 /\ DaysInMonth(12, y) = 31
      /\ DaysInMonth(2, y) = 28 + IF y % 4 = 0 THEN 1 ELSE 0
  BY DEF DaysInMonth
<1>3. y \in 2000..2099
  BY DEF Years
<1> QED
  BY <1>1, <1>2, <1>3, MonthStarts DEF MonthFits

\* Of each day of a year there is a month.
MonthOf(m, y, rest) == /\ DaysToMonth(m, y) <= rest
                       /\ m < 12 => rest < DaysToMonth(m + 1, y)
LEMMA MonthExists ==
    ASSUME NEW y \in Years, NEW rest \in Nat, rest < DaysInYear(y)
    PROVE  \E m \in Months : MonthOf(m, y, rest)
<1> DEFINE leap == IF y % 4 = 0 THEN 1 ELSE 0
<1>1. /\ DaysToMonth(1, y) = 0 /\ DaysToMonth(2, y) = 31
      /\ DaysToMonth(3, y) = 59 + leap /\ DaysToMonth(4, y) = 90 + leap
      /\ DaysToMonth(5, y) = 120 + leap /\ DaysToMonth(6, y) = 151 + leap
      /\ DaysToMonth(7, y) = 181 + leap /\ DaysToMonth(8, y) = 212 + leap
      /\ DaysToMonth(9, y) = 243 + leap /\ DaysToMonth(10, y) = 273 + leap
      /\ DaysToMonth(11, y) = 304 + leap /\ DaysToMonth(12, y) = 334 + leap
  BY MonthStarts DEF Years
<1>2. rest \in Nat /\ leap \in 0..1
  BY MonthStarts
<1> DEFINE Of(m) == MonthOf(m, y, rest)
<1>3. Of(1) \/ Of(2) \/ Of(3) \/ Of(4) \/ Of(5) \/ Of(6) \/ Of(7) \/ Of(8) \/ Of(9) \/ Of(10)
      \/ Of(11) \/ Of(12)
  <2> HIDE DEF leap
  <2> QED
    BY <1>1, <1>2 DEF MonthOf
<1>4. {1, 2, 3, 4, 5, 6, 7, 8, 9, 10, 11, 12} \subseteq Months
  BY DEF Months
<1> HIDE DEF Of
<1>5. \E m \in Months : Of(m)
  BY <1>3, <1>4
<1> QED
  BY <1>5 DEF Of

\* Of each day there is a year: a cycle of four years has 1461 days.
YearOf(y, days) == DaysToYear[y] <= days /\ days < DaysToYear[y + 1]
LEMMA YearExists ==
    ASSUME NEW days \in Nat, days < DaysToYear[LastYear + 1]
    PROVE  \E y \in FirstYear..LastYear : YearOf(y, days)
<1> DEFINE y == 2000 + ((4 * days) \div 1461)
<1>1. \E l \in FirstYear .. LastYear + 1 : l = LastYear + 1
  BY YearAssumption DEF FirstYear
<1>2. PICK l \in FirstYear .. LastYear + 1 : l = LastYear + 1
  BY <1>1
<1>3. days < 365 * (l - 2000) + ((l - 1997) \div 4)
  BY <1>2, DaysToYearIs
<1>4. y \in FirstYear..LastYear
  BY <1>2, <1>3, YearAssumption DEF FirstYear
<1>5. /\ 365 * (y - 2000) + ((y - 1997) \div 4) <= days
      /\ days < 365 * (y + 1 - 2000) + ((y + 1 - 1997) \div 4)
  OBVIOUS
<1>6. y \in FirstYear .. LastYear + 1 /\ y + 1 \in FirstYear .. LastYear + 1
  BY <1>4, YearAssumption DEF FirstYear
<1> HIDE DEF y
<1>7. DaysToYear[y] <= days /\ days < DaysToYear[y + 1]
  BY <1>5, <1>6, DaysToYearIs
<1> QED
  BY <1>4, <1>7 DEF YearOf

LEMMA YearLength ==
    ASSUME NEW y \in FirstYear..LastYear
    PROVE  y \in Years /\ YearFits(y)
<1>1. y \in 2000..2099 /\ y \in FirstYear .. LastYear + 1 /\ y + 1 \in FirstYear .. LastYear + 1
  BY YearAssumption DEF FirstYear
<1>2. DaysToYear[y] \in Nat
  BY <1>1, DaysToYearIs
<1>3. DaysToYear[y + 1] = DaysToYear[y] + DaysInYear(y)
  BY <1>1, DaysToYearIs, DaysToStep
<1> QED
  BY <1>1, <1>2, <1>3 DEF DaysInYear, Years, YearFits

\* A date that the RTC can hold.
Dates == {c \in [year : 2000..LastYear, month : 1..12, day : 1..31, secs : 0..(SecsPerDay - 1)] :
              c.day <= DaysInMonth(c.month, c.year)}


\* The days up to a date.
DayOf(c) == DaysToYear[c.year] + DaysToMonth(c.month, c.year) + c.day - 1

LEMMA NextDay ==
    ASSUME NEW n \in Int, NEW k \in Int
    PROVE  (n + 1) * k = n * k + k
  OBVIOUS

LEMMA DatesAre ==
    ASSUME NEW c \in Dates
    PROVE  /\ c.year \in FirstYear..LastYear /\ c.year \in Years /\ c.year \in Int
           /\ c.month \in Months /\ c.month \in 1..12
           /\ c.day \in 1..31 /\ c.secs \in 0..(SecsPerDay - 1)
           /\ c.day <= DaysInMonth(c.month, c.year)
           /\ c = [year |-> c.year, month |-> c.month, day |-> c.day, secs |-> c.secs]
           /\ YearFits(c.year) /\ MonthFits(c.month, c.year)
           /\ DayOf(c) \in Nat /\ ToSecs(c) = DayOf(c) * SecsPerDay + c.secs
<1>1. /\ c.year \in 2000..LastYear /\ c.month \in 1..12 /\ c.day \in 1..31
      /\ c.secs \in 0..(SecsPerDay - 1)
      /\ c.day <= DaysInMonth(c.month, c.year)
      /\ c = [year |-> c.year, month |-> c.month, day |-> c.day, secs |-> c.secs]
  BY DEF Dates
<1>2. c.year \in FirstYear..LastYear /\ c.year \in Years /\ c.month \in Months
      /\ c.year \in Int
  BY <1>1, YearAssumption DEF FirstYear, Years, Months
<1>3. YearFits(c.year) /\ MonthFits(c.month, c.year)
  BY <1>2, YearLength, MonthLength, Zenon
<1>4. DayOf(c) \in Nat /\ ToSecs(c) = DayOf(c) * SecsPerDay + c.secs
  BY <1>1, <1>3 DEF DayOf, ToSecs, YearFits, MonthFits
<1> QED
  BY <1>1, <1>2, <1>3, <1>4

\* A date is its four parts.
LEMMA Parts ==
    ASSUME NEW y, NEW m, NEW d, NEW s, NEW c,
           c = [year |-> y, month |-> m, day |-> d, secs |-> s]
    PROVE  c.year = y /\ c.month = m /\ c.day = d /\ c.secs = s
  OBVIOUS

LEMMA IsDate ==
    ASSUME NEW c, NEW y \in Int, NEW m \in Int, NEW d \in Int, NEW s \in Int,
           c = [year |-> y, month |-> m, day |-> d, secs |-> s],
           y \in FirstYear..LastYear, m \in Months, d >= 1, d <= DaysInMonth(m, y),
           MonthFits(m, y), 0 <= s, s < SecsPerDay
    PROVE  c \in Dates
  BY SecsAssumption DEF Dates, FirstYear, Months, MonthFits

\* The RTC counts seconds, over the ends of days, months and years.
THEOREM AfterIsNext ==
    ASSUME NEW c \in Dates, After(c).year <= LastYear
    PROVE  After(c) \in Dates /\ ToSecs(After(c)) = ToSecs(c) + 1
<1>1. PICK y \in Int, m \in Int, d \in Int, s \in Int :
          c = [year |-> y, month |-> m, day |-> d, secs |-> s]
  <2>1. /\ c = [year |-> c.year, month |-> c.month, day |-> c.day, secs |-> c.secs]
        /\ c.year \in Int /\ c.month \in Int /\ c.day \in Int /\ c.secs \in Int
    BY DatesAre
  <2> QED
    BY <2>1, Zenon
<1>2. c.year = y /\ c.month = m /\ c.day = d /\ c.secs = s
  BY <1>1, Parts, Zenon
<1>3. /\ y \in FirstYear..LastYear /\ y \in Years /\ m \in Months /\ m \in 1..12
      /\ d \in 1..31 /\ s \in 0..(SecsPerDay - 1)
      /\ d <= DaysInMonth(m, y) /\ YearFits(y) /\ MonthFits(m, y)
      /\ DayOf(c) \in Nat /\ ToSecs(c) = DayOf(c) * SecsPerDay + s
  BY <1>2, DatesAre
<1>4. DayOf(c) = DaysToYear[y] + DaysToMonth(m, y) + d - 1
  BY <1>2 DEF DayOf
<1>5. /\ DaysInMonth(m, y) \in 1..31 /\ DaysToMonth(m, y) \in Nat
      /\ DaysToMonth(m, y) + DaysInMonth(m, y) =
           IF m = 12 THEN DaysInYear(y) ELSE DaysToMonth(m + 1, y)
  BY <1>3 DEF MonthFits
<1>6. SecsPerDay \in Nat /\ SecsPerDay > 0
  BY SecsAssumption
<1> DEFINE after == After(c)
<1>7. CASE s + 1 < SecsPerDay
  <2>1. after = [year |-> y, month |-> m, day |-> d, secs |-> s + 1]
    BY <1>1, <1>2, <1>7 DEF After
  <2> HIDE DEF after
  <2>2. after.year = y /\ after.month = m /\ after.day = d /\ after.secs = s + 1
    BY <2>1, Parts
  <2>3. s + 1 \in Int /\ d >= 1 /\ 0 <= s + 1
    BY <1>3
  <2>4. after \in Dates
    BY <1>3, <1>7, <2>1, <2>3, IsDate
  <2>5. DayOf(after) = DayOf(c)
    BY <1>4, <2>2 DEF DayOf
  <2>6. ToSecs(after) = DayOf(c) * SecsPerDay + (s + 1)
    BY <2>2, <2>4, <2>5, DatesAre
  <2>7. DayOf(c) * SecsPerDay \in Int
    BY <1>3, <1>6
  <2> QED
    BY <1>3, <2>4, <2>6, <2>7 DEF after
<1>8. CASE ~(s + 1 < SecsPerDay)
  <2>1. s = SecsPerDay - 1
    BY <1>3, <1>6, <1>8
  <2>2. after \in Dates /\ after.secs = 0 /\ DayOf(after) = DayOf(c) + 1
    <3>1. CASE d < DaysInMonth(m, y)
      <4>1. after = [year |-> y, month |-> m, day |-> d + 1, secs |-> 0]
        BY <1>1, <1>2, <1>8, <3>1 DEF After
      <4> HIDE DEF after
      <4>2. after.year = y /\ after.month = m /\ after.day = d + 1 /\ after.secs = 0
        BY <4>1, Parts
      <4>3. d + 1 \in Int /\ d + 1 >= 1 /\ d + 1 <= DaysInMonth(m, y)
        BY <1>3, <1>5, <3>1
      <4>4. after \in Dates
        BY <1>3, <1>6, <4>1, <4>3, IsDate
      <4>5. DayOf(after) = DaysToYear[y] + DaysToMonth(m, y) + (d + 1) - 1
        BY <4>2 DEF DayOf
      <4> QED
        BY <1>3, <1>4, <1>5, <4>2, <4>4, <4>5 DEF YearFits
    <3>2. CASE d = DaysInMonth(m, y) /\ m < 12
      <4>1. after = [year |-> y, month |-> m + 1, day |-> 1, secs |-> 0]
        <5>1. ~(d < DaysInMonth(m, y))
          BY <1>5, <3>2
        <5>2. after = [c EXCEPT !.secs = 0, !.day = 1, !.month = @ + 1]
          BY <1>2, <1>8, <3>2, <5>1 DEF After
        <5> QED
          BY <1>1, <5>2
      <4> HIDE DEF after
      <4>2. after.year = y /\ after.month = m + 1 /\ after.day = 1 /\ after.secs = 0
        BY <4>1, Parts
      <4>3. m + 1 \in Months /\ m + 1 \in Int
        BY <1>3, <3>2 DEF Months
      <4>4. MonthFits(m + 1, y)
        BY <1>3, <4>3, MonthLength
      <4>5. DaysInMonth(m + 1, y) >= 1 /\ DaysToMonth(m + 1, y) \in Nat
        BY <4>4 DEF MonthFits
      <4>6. after \in Dates
        BY <1>3, <1>6, <4>1, <4>3, <4>4, <4>5, IsDate
      <4>7. DaysToMonth(m + 1, y) = DaysToMonth(m, y) + d
        BY <1>5, <3>2
      <4>8. DayOf(after) = DaysToYear[y] + DaysToMonth(m + 1, y) + 1 - 1
        BY <4>2 DEF DayOf
      <4> QED
        BY <1>3, <1>4, <1>5, <4>2, <4>6, <4>7, <4>8 DEF YearFits
    <3>3. CASE d = DaysInMonth(m, y) /\ m = 12
      <4>1. after = [year |-> y + 1, month |-> 1, day |-> 1, secs |-> 0]
        BY <1>1, <1>2, <1>8, <3>3 DEF After
      <4> HIDE DEF after
      <4>2. after.year = y + 1 /\ after.month = 1 /\ after.day = 1 /\ after.secs = 0
        BY <4>1, Parts
      <4>3. y + 1 <= LastYear
        BY <4>2 DEF after
      <4>4. y + 1 \in FirstYear..LastYear /\ y + 1 \in Int /\ 1 \in Months /\ y + 1 \in Years
        BY <1>3, <4>3, YearAssumption DEF FirstYear, Months, Years
      <4>5. MonthFits(1, y + 1) /\ YearFits(y + 1)
        BY <4>4, MonthLength, YearLength
      <4>6. DaysInMonth(1, y + 1) >= 1 /\ DaysToMonth(1, y + 1) = 0
        BY <4>4, <4>5, MonthStarts DEF MonthFits, Years
      <4>7. DaysToYear[y + 1] = DaysToYear[y] + DaysInYear(y)
        BY <1>3 DEF YearFits
      <4>8. after \in Dates
        BY <1>6, <4>1, <4>4, <4>5, <4>6, IsDate
      <4>9. DayOf(after) = DaysToYear[y + 1] + DaysToMonth(1, y + 1) + 1 - 1
        BY <4>2 DEF DayOf
      <4>10. DaysInYear(y) = DaysToMonth(m, y) + d
        BY <1>5, <3>3
      <4> QED
        BY <1>3, <1>4, <1>5, <4>2, <4>6, <4>7, <4>8, <4>9, <4>10 DEF YearFits
    <3> QED
      BY <1>3, <1>5, <3>1, <3>2, <3>3
  <2> HIDE DEF after
  <2>3. ToSecs(after) = (DayOf(c) + 1) * SecsPerDay
    BY <1>3, <1>6, <2>2, DatesAre
  <2>4. (DayOf(c) + 1) * SecsPerDay = DayOf(c) * SecsPerDay + SecsPerDay
    BY <1>3, <1>6, NextDay
  <2>5. DayOf(c) * SecsPerDay \in Int
    BY <1>3, <1>6
  <2>6. ToSecs(after) = ToSecs(c) + 1
    BY <1>3, <1>6, <2>1, <2>3, <2>4, <2>5
  <2> QED
    BY <2>2, <2>6 DEF after
<1> QED
  BY <1>7, <1>8

LEMMA DivMod ==
    ASSUME NEW s \in Nat, NEW k \in Nat, k > 0
    PROVE  /\ s \div k \in Nat /\ s % k \in 0..(k - 1)
           /\ s = (s \div k) * k + (s % k)
  OBVIOUS

LEMMA DivBound ==
    ASSUME NEW q \in Nat, NEW n \in Nat, NEW k \in Nat, k > 0, NEW r \in Nat, q * k + r < n * k
    PROVE  q < n
<1> SUFFICES ASSUME n <= q PROVE FALSE
  OBVIOUS
<1>1. (q - n) * k \in Nat /\ q * k = (q - n) * k + n * k
  OBVIOUS
<1>2. q * k \in Nat /\ n * k \in Nat
  OBVIOUS
<1> QED
  BY <1>1, <1>2

\* secs2000_to_calendar inverts calendar_to_secs2000.
THEOREM ToCalendarInverts ==
    ASSUME NEW s \in Nat, s < DaysToYear[LastYear + 1] * SecsPerDay
    PROVE  /\ ToCalendar(s) \in Dates /\ ToSecs(ToCalendar(s)) = s
           /\ ToCalendar(s).secs = s % SecsPerDay
<1> DEFINE days == s \div SecsPerDay
           secs == s % SecsPerDay
           year == CHOOSE y \in FirstYear..LastYear : DaysToYear[y] <= days /\ days < DaysToYear[y + 1]
           rest == days - DaysToYear[year]
           month == CHOOSE m \in 1..12 : /\ DaysToMonth(m, year) <= rest
                                         /\ m < 12 => rest < DaysToMonth(m + 1, year)
           day == rest - DaysToMonth(month, year) + 1
           c == [year |-> year, month |-> month, day |-> day, secs |-> secs]
<1>1. ToCalendar(s) = c
  BY DEF ToCalendar
<1>2. SecsPerDay \in Nat /\ SecsPerDay > 0
  BY SecsAssumption
<1>3. days \in Nat /\ secs \in 0..(SecsPerDay - 1) /\ s = days * SecsPerDay + secs
  BY <1>2, DivMod
<1> HIDE DEF days, secs
<1>4. DaysToYear[LastYear + 1] \in Nat
  <2>1. LastYear \in FirstYear..LastYear
    BY YearAssumption DEF FirstYear
  <2>2. YearFits(LastYear)
    BY <2>1, YearLength
  <2> QED
    BY <2>2 DEF YearFits
<1>5. days < DaysToYear[LastYear + 1]
  <2>1. days * SecsPerDay + secs < DaysToYear[LastYear + 1] * SecsPerDay /\ secs \in Nat
    BY <1>3, <1>2
  <2> QED
    BY <1>2, <1>3, <1>4, <2>1, DivBound
<1>6. year \in FirstYear..LastYear /\ YearOf(year, days)
  <2>1. year = CHOOSE y \in FirstYear..LastYear : YearOf(y, days)
    BY DEF YearOf
  <2> HIDE DEF year
  <2>2. \E y \in FirstYear..LastYear : YearOf(y, days)
    BY <1>3, <1>5, YearExists
  <2> QED
    BY <2>1, <2>2, Zenon
<1> HIDE DEF year
<1>7. year \in Years /\ YearFits(year) /\ year \in Int
  BY <1>6, YearLength, YearAssumption DEF FirstYear
<1>8. rest \in Nat /\ rest < DaysInYear(year)
  BY <1>3, <1>6, <1>7 DEF YearFits, YearOf
<1>9. days = DaysToYear[year] + rest
  BY <1>3, <1>7 DEF YearFits
<1> HIDE DEF rest
<1>10. month \in Months /\ MonthOf(month, year, rest)
  <2>1. month = CHOOSE m \in Months : MonthOf(m, year, rest)
    BY DEF MonthOf, Months
  <2> HIDE DEF month
  <2>2. \E m \in Months : MonthOf(m, year, rest)
    BY <1>7, <1>8, MonthExists
  <2> QED
    BY <2>1, <2>2, Zenon
<1> HIDE DEF month
<1>11. MonthFits(month, year)
  BY <1>7, <1>10, MonthLength, Zenon
<1>12. month \in Int /\ month \in 1..12
  BY <1>10 DEF Months
<1>13. /\ DaysInMonth(month, year) \in 1..31 /\ DaysToMonth(month, year) \in Nat
       /\ DaysToMonth(month, year) + DaysInMonth(month, year) =
            IF month = 12 THEN DaysInYear(year) ELSE DaysToMonth(month + 1, year)
  BY <1>11 DEF MonthFits
<1>14. /\ day \in Int /\ 1 <= day /\ day <= DaysInMonth(month, year)
       /\ rest = DaysToMonth(month, year) + day - 1
  BY <1>8, <1>10, <1>12, <1>13 DEF MonthOf
<1> HIDE DEF day
<1>15. c.year = year /\ c.month = month /\ c.day = day /\ c.secs = secs
  OBVIOUS
<1>16. c \in Dates
  BY <1>2, <1>3, <1>6, <1>7, <1>10, <1>11, <1>12, <1>14, IsDate
<1>17. DayOf(c) = DaysToYear[year] + DaysToMonth(month, year) + day - 1
  BY <1>15 DEF DayOf
<1> HIDE DEF c
<1>18. DayOf(c) = days
  BY <1>7, <1>9, <1>13, <1>14, <1>17 DEF YearFits
<1>19. ToSecs(c) = DayOf(c) * SecsPerDay + c.secs
  BY <1>16, DatesAre
<1> QED
  BY <1>1, <1>3, <1>15, <1>16, <1>18, <1>19 DEF secs

-----------------------------------------------------------------------------
(* The inductive invariant of the wall clock *)

\* The times to the end of LastYear.
Times == {n \in Nat : n >= Epoch2000 /\ n - Epoch2000 < DaysToYear[LastYear + 1] * SecsPerDay}

Points == {"idle", "get", "date", "got", "set", "setDate", "deleted"}

RtcTypes ==
    /\ rtc \in Dates /\ time \in Nat /\ jumped \in BOOLEAN
    /\ pc \in [Tasks -> Points] /\ local \in [Tasks -> Nat] /\ known \in [Tasks -> Int]

\* The calendar agrees with the time while nobody holds the mutex.
FreeAgrees == mutex = NoTask /\ ~jumped => time = Epoch2000 + ToSecs(rtc)

\* Who is between taking time_mutex and giving it back holds it.  The calendar agrees while it
\* reads, or is still to write; once the time of day is written and the date is not, the
\* seconds agree.  A setter deleted in between leaves them apart and the mutex taken.  What
\* was read is what was to be read, and what is to be set is in reach of the RTC.
TaskFits(t) ==
    /\ pc[t] \in {"get", "date", "set", "setDate"} => mutex = t
    /\ pc[t] \in {"get", "date", "set"} /\ ~jumped => time = Epoch2000 + ToSecs(rtc)
    /\ pc[t] = "setDate" /\ ~jumped =>
         time - local[t] = rtc.secs - ((local[t] - Epoch2000) % SecsPerDay)
    /\ pc[t] \in {"date", "got", "set", "setDate"} => local[t] \in Times
    /\ pc[t] \in {"date", "got"} => known[t] \in {local[t], Unknown}

RtcInv == RtcTypes /\ FreeAgrees /\ \A t \in Tasks : TaskFits(t)

LEMMA MonthEnds ==
    ASSUME NEW y \in Years, NEW m \in Months
    PROVE  /\ DaysToMonth(m, y) \in Nat /\ DaysInMonth(m, y) \in Nat
           /\ DaysToMonth(m, y) + DaysInMonth(m, y) <= DaysInYear(y)
<1>1. m \in {1, 2, 3, 4, 5, 6, 7, 8, 9, 10, 11, 12}
  BY DEF Months
<1>2. y \in 2000..2099
  BY DEF Years
<1> QED
  BY <1>1, <1>2, MonthStarts DEF DaysInMonth

LEMMA TimesMonotone ==
    ASSUME NEW n \in Nat, NEW m \in Nat, n <= m, NEW k \in Nat
    PROVE  n * k <= m * k
<1>1. (m - n) * k \in Nat /\ m * k = (m - n) * k + n * k /\ n * k \in Nat
  OBVIOUS
<1> QED
  BY <1>1

LEMMA AfterSecs ==
    ASSUME NEW c \in Dates
    PROVE  After(c).secs = 0 \/ After(c).secs = c.secs + 1
<1>1. c = [year |-> c.year, month |-> c.month, day |-> c.day, secs |-> c.secs]
  BY DatesAre
<1> QED
  BY <1>1 DEF After

\* The RTC holds no time after LastYear.
LEMMA DateInReach ==
    ASSUME NEW c \in Dates
    PROVE  Epoch2000 + ToSecs(c) \in Times
<1>1. PICK y \in FirstYear..LastYear : y = c.year /\ YearFits(y)
  BY DatesAre
<1>2. /\ c.secs \in 0..(SecsPerDay - 1) /\ c.day <= DaysInMonth(c.month, c.year)
      /\ c.month \in 1..12 /\ c.day \in Int /\ MonthFits(c.month, c.year)
      /\ DayOf(c) \in Nat /\ ToSecs(c) = DayOf(c) * SecsPerDay + c.secs
  BY DatesAre
<1>3. DaysToYear[y + 1] \in Nat /\ DaysToYear[y + 1] <= DaysToYear[LastYear + 1]
      /\ DaysToYear[LastYear + 1] \in Nat
  <2>1. y + 1 \in FirstYear .. LastYear + 1 /\ LastYear \in Int /\ y + 1 <= LastYear + 1
        /\ LastYear + 1 \in FirstYear .. LastYear + 1
    BY YearAssumption DEF FirstYear
  <2>2. DaysToYear[y + 1] = 365 * (y + 1 - 2000) + ((y + 1 - 1997) \div 4)
        /\ DaysToYear[LastYear + 1] = 365 * (LastYear + 1 - 2000) + ((LastYear + 1 - 1997) \div 4)
    <3>1. \A l : l \in FirstYear .. LastYear + 1 =>
                   DaysToYear[l] = 365 * (l - 2000) + ((l - 1997) \div 4)
      BY DaysToYearIs
    <3> QED
      BY <2>1, <3>1
  <2> QED
    BY <2>1, <2>2, YearAssumption DEF FirstYear
<1>4. DayOf(c) + 1 <= DaysToYear[y + 1]
  <2>1. DaysToYear[y] \in Nat /\ DaysInYear(y) \in Nat
        /\ DaysToYear[y + 1] = DaysToYear[y] + DaysInYear(y)
    BY <1>1 DEF YearFits
  <2>2. c.day + DaysToMonth(c.month, c.year) <= DaysInYear(c.year)
        /\ DaysInYear(c.year) \in Nat /\ DaysToYear[c.year] \in Nat
    <3>1. c.year \in Years /\ c.month \in Months
      BY DatesAre
    <3>2. /\ DaysToMonth(c.month, c.year) \in Nat /\ DaysInMonth(c.month, c.year) \in Nat
          /\ DaysToMonth(c.month, c.year) + DaysInMonth(c.month, c.year) <= DaysInYear(c.year)
      BY <3>1, MonthEnds, Zenon
    <3>3. DaysInYear(c.year) \in Nat /\ DaysToYear[c.year] \in Nat
      BY <1>1, <2>1, Zenon
    <3> QED
      BY <1>2, <3>2, <3>3
  <2>3. DayOf(c) = DaysToYear[c.year] + DaysToMonth(c.month, c.year) + c.day - 1
    BY DEF DayOf
  <2>4. DaysToMonth(c.month, c.year) \in Nat
    BY <1>2 DEF MonthFits
  <2>5. DayOf(c) + 1 <= DaysToYear[c.year] + DaysInYear(c.year)
    BY <1>2, <2>2, <2>3, <2>4
  <2> QED
    BY <1>1, <2>1, <2>5
<1>5. (DayOf(c) + 1) * SecsPerDay <= DaysToYear[LastYear + 1] * SecsPerDay
  BY <1>2, <1>3, <1>4, SecsAssumption, TimesMonotone
<1>6. (DayOf(c) + 1) * SecsPerDay = DayOf(c) * SecsPerDay + SecsPerDay
  BY <1>2, SecsAssumption, NextDay
<1>7. DayOf(c) * SecsPerDay \in Nat /\ DaysToYear[LastYear + 1] * SecsPerDay \in Nat
  BY <1>2, <1>3, SecsAssumption
<1> QED
  BY <1>2, <1>5, <1>6, <1>7, SecsAssumption DEF Times

LEMMA ToSecsIsNat ==
    ASSUME NEW c \in Dates
    PROVE  ToSecs(c) \in Nat
<1>1. DayOf(c) \in Nat /\ c.secs \in Nat /\ ToSecs(c) = DayOf(c) * SecsPerDay + c.secs
  BY DatesAre, SecsAssumption
<1>2. DayOf(c) * SecsPerDay \in Nat
  BY <1>1, SecsAssumption
<1> QED
  BY <1>1, <1>2

LEMMA CalendarOf ==
    ASSUME NEW n \in Times
    PROVE  /\ ToCalendar(n - Epoch2000) \in Dates
           /\ Epoch2000 + ToSecs(ToCalendar(n - Epoch2000)) = n
           /\ ToCalendar(n - Epoch2000).secs = (n - Epoch2000) % SecsPerDay
           /\ (n - Epoch2000) % SecsPerDay \in 0..(SecsPerDay - 1)
<1>1. n \in Nat /\ Epoch2000 \in Nat /\ n - Epoch2000 \in Nat
      /\ n - Epoch2000 < DaysToYear[LastYear + 1] * SecsPerDay
  BY SecsAssumption DEF Times
<1> DEFINE s == n - Epoch2000
<1>2. /\ ToCalendar(s) \in Dates /\ ToSecs(ToCalendar(s)) = s
      /\ ToCalendar(s).secs = s % SecsPerDay
  <2>1. s \in Nat /\ s < DaysToYear[LastYear + 1] * SecsPerDay
    BY <1>1
  <2> HIDE DEF s
  <2> QED
    BY <2>1, ToCalendarInverts
<1>3. s % SecsPerDay \in 0..(SecsPerDay - 1)
  <2>1. s \in Nat
    BY <1>1
  <2> HIDE DEF s
  <2> QED
    BY <2>1, SecsAssumption, DivMod
<1> QED
  BY <1>1, <1>2, <1>3

\* The steps of the wall clock, whatever is set in them.
RtcStep ==
    \/ Tick
    \/ \E t \in Tasks :
         \/ Get(t) \/ GetTime(t) \/ GetDate(t) \/ Return(t) \/ SetTime(t) \/ SetDate(t)
         \/ Delete(t) \/ Create(t)
         \/ \E epoch \in Times : Set(t, epoch)

LEMMA EpochsInReach == Epochs \subseteq Times
  BY EpochsAssumption DEF Times

LEMMA RtcStarts == RtcInit => RtcInv
<1> SUFFICES ASSUME RtcInit PROVE RtcInv
  OBVIOUS
<1>1. time \in Times /\ rtc = ToCalendar(time - Epoch2000)
  BY EpochsInReach DEF RtcInit
<1>2. rtc \in Dates /\ Epoch2000 + ToSecs(rtc) = time
  BY <1>1, CalendarOf
<1>3. RtcTypes
  <2>1. time \in Nat
    BY <1>1 DEF Times
  <2>2. /\ pc \in [Tasks -> Points] /\ local \in [Tasks -> Nat] /\ known \in [Tasks -> Int]
        /\ jumped \in BOOLEAN
    <3>1. /\ pc = [t \in Tasks |-> "idle"] /\ local = [t \in Tasks |-> 0]
          /\ known = [t \in Tasks |-> 0] /\ jumped = FALSE
      BY DEF RtcInit
    <3>2. pc \in [Tasks -> Points]
      BY <3>1 DEF Points
    <3>3. local \in [Tasks -> Nat]
      BY <3>1
    <3>4. known \in [Tasks -> Int]
      BY <3>1
    <3> QED
      BY <3>1, <3>2, <3>3, <3>4
  <2> QED
    BY <1>2, <2>1, <2>2 DEF RtcTypes
<1>4. FreeAgrees
  BY <1>2 DEF FreeAgrees
<1>5. \A t \in Tasks : TaskFits(t)
  BY DEF RtcInit, TaskFits
<1> QED
  BY <1>3, <1>4, <1>5 DEF RtcInv

LEMMA TickKeeps == RtcInv /\ Tick => RtcInv'
<1> SUFFICES ASSUME RtcInv, Tick PROVE RtcInv'
  OBVIOUS
<1>1. /\ rtc' = After(rtc) /\ After(rtc).year <= LastYear /\ time' = time + 1
      /\ jumped' = (jumped \/ (rtc'.secs = 0 /\ \E t \in Tasks : pc[t] = "setDate"))
      /\ pc' = pc /\ local' = local /\ known' = known /\ mutex' = mutex
  BY DEF Tick
<1>2. rtc \in Dates /\ time \in Nat
  BY DEF RtcInv, RtcTypes
<1>3. rtc' \in Dates /\ ToSecs(rtc') = ToSecs(rtc) + 1 /\ ToSecs(rtc) \in Nat
  BY <1>1, <1>2, AfterIsNext, ToSecsIsNat
<1>4. rtc'.secs = 0 \/ rtc'.secs = rtc.secs + 1
  BY <1>1, <1>2, AfterSecs
<1>5. jumped' \in BOOLEAN /\ (~jumped' => ~jumped)
  BY <1>1 DEF RtcInv, RtcTypes
<1>6. RtcTypes'
  BY <1>1, <1>2, <1>3, <1>5 DEF RtcInv, RtcTypes
<1>7. FreeAgrees'
  BY <1>1, <1>2, <1>3, <1>5, SecsAssumption DEF RtcInv, FreeAgrees
<1>8. ASSUME NEW t \in Tasks PROVE TaskFits(t)'
  <2>1. TaskFits(t) /\ local[t] \in Nat
    BY DEF RtcInv, RtcTypes
  <2>2. CASE pc[t] = "setDate" /\ ~jumped'
    <3>1. rtc'.secs = rtc.secs + 1 /\ ~jumped
      BY <1>1, <1>4, <1>5, <2>2
    <3>2. time - local[t] = rtc.secs - ((local[t] - Epoch2000) % SecsPerDay)
      BY <2>1, <2>2, <3>1 DEF TaskFits
    <3>3. rtc.secs \in Int /\ (local[t] - Epoch2000) % SecsPerDay \in Int
      <4>1. local[t] \in Times
        BY <2>1, <2>2 DEF TaskFits
      <4> QED
        BY <1>2, <4>1, CalendarOf, DatesAre
    <3>4. time' - local[t] = rtc'.secs - ((local[t] - Epoch2000) % SecsPerDay)
      BY <1>1, <1>2, <2>1, <3>1, <3>2, <3>3
    <3> QED
      BY <1>1, <2>1, <2>2, <3>4 DEF TaskFits
  <2>3. CASE ~(pc[t] = "setDate" /\ ~jumped')
    <3>1. pc[t] \in {"get", "date", "set"} /\ ~jumped' => time' = Epoch2000 + ToSecs(rtc')
      BY <1>1, <1>2, <1>3, <1>5, <2>1, SecsAssumption DEF TaskFits
    <3> QED
      BY <1>1, <2>1, <2>3, <3>1 DEF TaskFits
  <2> QED
    BY <2>2, <2>3
<1> QED
  BY <1>6, <1>7, <1>8 DEF RtcInv

\* A step of one task leaves what the others hold alone, as long as it leaves them the clock.
LEMMA OthersKeep ==
    ASSUME RtcInv, NEW t \in Tasks, NEW u \in Tasks, u # t,
           pc'[u] = pc[u], local'[u] = local[u], known'[u] = known[u],
           \/ UNCHANGED <<rtc, time, jumped>>
           \/ mutex = t /\ pc[t] \in {"set", "setDate"},
           \/ mutex' = mutex
           \/ mutex = NoTask \/ mutex = t
    PROVE  TaskFits(u)'
<1>1. TaskFits(u) /\ NoTask \notin Tasks
  BY TasksAssumption DEF RtcInv
<1>2. CASE pc[u] \in {"get", "date", "set", "setDate"}
  <2>1. mutex = u
    BY <1>1, <1>2 DEF TaskFits
  <2>2. mutex' = mutex /\ UNCHANGED <<rtc, time, jumped>>
    BY <1>1, <2>1
  <2> QED
    BY <1>1, <2>2 DEF TaskFits
<1>3. CASE pc[u] \notin {"get", "date", "set", "setDate"}
  BY <1>1, <1>3 DEF TaskFits
<1> QED
  BY <1>2, <1>3

LEMMA GetKeeps ==
    ASSUME RtcInv, NEW t \in Tasks, Get(t)
    PROVE  RtcInv'
<1>1. /\ pc[t] = "idle" /\ mutex = NoTask /\ mutex' = t /\ pc' = [pc EXCEPT ![t] = "get"]
      /\ UNCHANGED <<rtc, local, time, known, jumped>>
  BY DEF Get, TakeMutex
<1>2. pc \in [Tasks -> Points] /\ pc'[t] = "get" /\ RtcTypes /\ FreeAgrees
  BY <1>1 DEF RtcInv, RtcTypes
<1>3. RtcTypes'
  BY <1>1, <1>2 DEF RtcTypes, Points
<1>4. FreeAgrees'
  BY <1>1, TasksAssumption DEF FreeAgrees
<1>5. TaskFits(t)'
  BY <1>1, <1>2 DEF TaskFits, FreeAgrees
<1>6. ASSUME NEW u \in Tasks PROVE TaskFits(u)'
  BY <1>1, <1>2, <1>5, OthersKeep
<1> QED
  BY <1>3, <1>4, <1>6 DEF RtcInv

LEMMA GetTimeKeeps ==
    ASSUME RtcInv, NEW t \in Tasks, GetTime(t)
    PROVE  RtcInv'
<1>1. /\ pc[t] = "get" /\ pc' = [pc EXCEPT ![t] = "date"]
      /\ local' = [local EXCEPT ![t] = Epoch2000 + ToSecs(rtc)]
      /\ known' = [known EXCEPT ![t] = IF jumped THEN Unknown ELSE time]
      /\ UNCHANGED <<rtc, mutex, time, jumped>>
  BY DEF GetTime
<1>2. /\ pc \in [Tasks -> Points] /\ local \in [Tasks -> Nat] /\ known \in [Tasks -> Int]
      /\ RtcTypes /\ FreeAgrees /\ TaskFits(t) /\ rtc \in Dates /\ time \in Nat
  BY DEF RtcInv, RtcTypes
<1>3. pc'[t] = "date" /\ local'[t] = Epoch2000 + ToSecs(rtc)
      /\ known'[t] = IF jumped THEN Unknown ELSE time
  BY <1>1, <1>2
<1>4. Epoch2000 + ToSecs(rtc) \in Times /\ Epoch2000 + ToSecs(rtc) \in Nat
  <2>1. Epoch2000 + ToSecs(rtc) \in Times
    BY <1>2, DateInReach
  <2> QED
    BY <2>1 DEF Times
<1>5. RtcTypes'
  <2>1. pc' \in [Tasks -> Points]
    BY <1>1, <1>2 DEF Points
  <2>2. local' \in [Tasks -> Nat]
    BY <1>1, <1>2, <1>4
  <2>3. known' \in [Tasks -> Int]
    BY <1>1, <1>2 DEF Unknown
  <2> QED
    BY <1>1, <1>2, <2>1, <2>2, <2>3 DEF RtcTypes
<1>6. FreeAgrees'
  BY <1>1, <1>2 DEF FreeAgrees
<1>7. TaskFits(t)'
  <2>1. known'[t] \in {local'[t], Unknown}
    BY <1>1, <1>2, <1>3 DEF TaskFits
  <2> QED
    BY <1>1, <1>2, <1>3, <1>4, <2>1 DEF TaskFits
<1>8. ASSUME NEW u \in Tasks PROVE TaskFits(u)'
  BY <1>1, <1>2, <1>7, OthersKeep
<1> QED
  BY <1>5, <1>6, <1>8 DEF RtcInv

LEMMA GetDateKeeps ==
    ASSUME RtcInv, NEW t \in Tasks, GetDate(t)
    PROVE  RtcInv'
<1>1. /\ pc[t] = "date" /\ pc' = [pc EXCEPT ![t] = "got"] /\ mutex' = NoTask
      /\ UNCHANGED <<rtc, local, time, known, jumped>>
  BY DEF GetDate
<1>2. pc \in [Tasks -> Points] /\ RtcTypes /\ TaskFits(t) /\ mutex = t /\ pc'[t] = "got"
  BY <1>1 DEF RtcInv, RtcTypes, TaskFits
<1>3. RtcTypes'
  BY <1>1, <1>2 DEF RtcTypes, Points
<1>4. FreeAgrees' /\ TaskFits(t)'
  BY <1>1, <1>2 DEF FreeAgrees, TaskFits
<1>5. ASSUME NEW u \in Tasks PROVE TaskFits(u)'
  BY <1>1, <1>2, <1>4, OthersKeep
<1> QED
  BY <1>3, <1>4, <1>5 DEF RtcInv

\* Return, Delete and Create leave a task where it holds nothing.
LEMMA LeaveKeeps ==
    ASSUME RtcInv, NEW t \in Tasks, NEW p \in {"idle", "deleted"},
           pc' = [pc EXCEPT ![t] = p],
           local' \in {local, [local EXCEPT ![t] = 0]}, known' \in {known, [known EXCEPT ![t] = 0]},
           UNCHANGED <<rtc, mutex, time, jumped>>
    PROVE  RtcInv'
<1>1. /\ pc \in [Tasks -> Points] /\ local \in [Tasks -> Nat] /\ known \in [Tasks -> Int]
      /\ RtcTypes /\ FreeAgrees
  BY DEF RtcInv, RtcTypes
<1>2. local' \in [Tasks -> Nat] /\ known' \in [Tasks -> Int] /\ pc' \in [Tasks -> Points]
  BY <1>1 DEF Points
<1>3. RtcTypes' /\ FreeAgrees'
  BY <1>1, <1>2 DEF RtcTypes, FreeAgrees
<1>4. TaskFits(t)'
  BY <1>1 DEF TaskFits
<1>5. ASSUME NEW u \in Tasks, u # t PROVE TaskFits(u)'
  <2>1. pc'[u] = pc[u] /\ local'[u] = local[u] /\ known'[u] = known[u]
    BY <1>1, <1>5
  <2> QED
    BY <1>5, <2>1, OthersKeep
<1> QED
  BY <1>3, <1>4, <1>5 DEF RtcInv

LEMMA SetKeeps ==
    ASSUME RtcInv, NEW t \in Tasks, NEW epoch \in Times, Set(t, epoch)
    PROVE  RtcInv'
<1>1. /\ pc[t] = "idle" /\ mutex = NoTask /\ mutex' = t /\ pc' = [pc EXCEPT ![t] = "set"]
      /\ local' = [local EXCEPT ![t] = epoch]
      /\ UNCHANGED <<rtc, time, known, jumped>>
  BY DEF Set, TakeMutex
<1>2. /\ pc \in [Tasks -> Points] /\ local \in [Tasks -> Nat] /\ RtcTypes /\ FreeAgrees
      /\ epoch \in Nat
  BY DEF RtcInv, RtcTypes, Times
<1>3. pc'[t] = "set" /\ local'[t] = epoch
  BY <1>1, <1>2
<1>4. RtcTypes'
  <2>1. pc' \in [Tasks -> Points] /\ local' \in [Tasks -> Nat]
    BY <1>1, <1>2 DEF Points
  <2> QED
    BY <1>1, <1>2, <2>1 DEF RtcTypes
<1>5. FreeAgrees' /\ TaskFits(t)'
  BY <1>1, <1>2, <1>3, TasksAssumption DEF FreeAgrees, TaskFits
<1>6. ASSUME NEW u \in Tasks, u # t PROVE TaskFits(u)'
  <2>1. pc'[u] = pc[u] /\ local'[u] = local[u] /\ known'[u] = known[u]
    BY <1>1, <1>2, <1>6
  <2> QED
    BY <1>1, <1>6, <2>1, OthersKeep
<1> QED
  BY <1>4, <1>5, <1>6 DEF RtcInv

LEMMA SecsOfDate ==
    ASSUME NEW c \in Dates, NEW s \in 0..(SecsPerDay - 1)
    PROVE  /\ [c EXCEPT !.secs = s] \in Dates /\ [c EXCEPT !.secs = s].secs = s
           /\ ToSecs([c EXCEPT !.secs = s]) = ToSecs(c) - c.secs + s
<1> DEFINE d == [c EXCEPT !.secs = s]
<1>1. /\ c = [year |-> c.year, month |-> c.month, day |-> c.day, secs |-> c.secs]
      /\ c.secs \in Int /\ DayOf(c) \in Nat /\ ToSecs(c) = DayOf(c) * SecsPerDay + c.secs
  BY DatesAre
<1>2. /\ d = [year |-> c.year, month |-> c.month, day |-> c.day, secs |-> s]
      /\ d.year = c.year /\ d.month = c.month /\ d.day = c.day /\ d.secs = s
  BY <1>1
<1>3. d \in Dates
  BY <1>2 DEF Dates
<1> HIDE DEF d
<1>4. DayOf(d) = DayOf(c)
  BY <1>2 DEF DayOf
<1>5. ToSecs(d) = DayOf(c) * SecsPerDay + s
  BY <1>2, <1>3, <1>4, DatesAre
<1>6. DayOf(c) * SecsPerDay \in Int /\ s \in Int
  BY <1>1, SecsAssumption
<1>7. ToSecs(d) = ToSecs(c) - c.secs + s
  BY <1>1, <1>5, <1>6
<1> QED
  BY <1>2, <1>3, <1>7 DEF d

LEMMA SetTimeKeeps ==
    ASSUME RtcInv, NEW t \in Tasks, SetTime(t)
    PROVE  RtcInv'
<1>1. /\ pc[t] = "set" /\ pc' = [pc EXCEPT ![t] = "setDate"]
      /\ rtc' = [rtc EXCEPT !.secs = ToCalendar(local[t] - Epoch2000).secs] /\ time' = local[t]
      /\ jumped' = FALSE
      /\ UNCHANGED <<mutex, local, known>>
  BY DEF SetTime
<1>2. /\ pc \in [Tasks -> Points] /\ local \in [Tasks -> Nat] /\ RtcTypes /\ TaskFits(t)
      /\ rtc \in Dates
  BY DEF RtcInv, RtcTypes
<1>3. mutex = t /\ local[t] \in Times /\ local[t] \in Nat /\ pc'[t] = "setDate"
  BY <1>1, <1>2 DEF TaskFits
<1>4. /\ ToCalendar(local[t] - Epoch2000).secs = (local[t] - Epoch2000) % SecsPerDay
      /\ (local[t] - Epoch2000) % SecsPerDay \in 0..(SecsPerDay - 1)
  BY <1>3, CalendarOf
<1>5. rtc' \in Dates /\ rtc'.secs = (local[t] - Epoch2000) % SecsPerDay
  BY <1>1, <1>2, <1>4, SecsOfDate
<1>6. RtcTypes'
  <2>1. pc' \in [Tasks -> Points]
    BY <1>1, <1>2 DEF Points
  <2> QED
    BY <1>1, <1>2, <1>3, <1>5, <2>1 DEF RtcTypes
<1>7. FreeAgrees'
  BY <1>1, <1>3, TasksAssumption DEF FreeAgrees
<1>8. TaskFits(t)'
  <2>1. time' - local'[t] = 0
    BY <1>1, <1>3
  <2>2. rtc'.secs - ((local'[t] - Epoch2000) % SecsPerDay) = 0
    BY <1>1, <1>4, <1>5
  <2> QED
    BY <1>1, <1>3, <2>1, <2>2 DEF TaskFits
<1>9. ASSUME NEW u \in Tasks, u # t PROVE TaskFits(u)'
  <2>1. pc'[u] = pc[u] /\ local'[u] = local[u] /\ known'[u] = known[u]
    BY <1>1, <1>2, <1>9
  <2> QED
    BY <1>1, <1>3, <1>9, <2>1, OthersKeep
<1> QED
  BY <1>6, <1>7, <1>8, <1>9 DEF RtcInv

LEMMA SetDateKeeps ==
    ASSUME RtcInv, NEW t \in Tasks, SetDate(t)
    PROVE  RtcInv'
<1> DEFINE date == ToCalendar(local[t] - Epoch2000)
<1>1. /\ pc[t] = "setDate" /\ pc' = [pc EXCEPT ![t] = "idle"] /\ mutex' = NoTask
      /\ rtc' = [date EXCEPT !.secs = rtc.secs]
      /\ local' = [local EXCEPT ![t] = 0]
      /\ UNCHANGED <<time, known, jumped>>
  BY DEF SetDate
<1>2. /\ pc \in [Tasks -> Points] /\ local \in [Tasks -> Nat] /\ RtcTypes /\ TaskFits(t)
      /\ rtc \in Dates /\ time \in Nat
  BY DEF RtcInv, RtcTypes
<1>3. mutex = t /\ local[t] \in Times /\ local[t] \in Nat /\ pc'[t] = "idle"
  BY <1>1, <1>2 DEF TaskFits
<1>4. /\ date \in Dates /\ Epoch2000 + ToSecs(date) = local[t]
      /\ date.secs = (local[t] - Epoch2000) % SecsPerDay
      /\ (local[t] - Epoch2000) % SecsPerDay \in 0..(SecsPerDay - 1)
  BY <1>3, CalendarOf
<1> HIDE DEF date
<1>5. rtc.secs \in 0..(SecsPerDay - 1)
  BY <1>2, DatesAre
<1>6. rtc' \in Dates /\ ToSecs(rtc') = ToSecs(date) - date.secs + rtc.secs
  BY <1>1, <1>4, <1>5, SecsOfDate
<1>7. RtcTypes'
  <2>1. pc' \in [Tasks -> Points] /\ local' \in [Tasks -> Nat]
    BY <1>1, <1>2 DEF Points
  <2> QED
    BY <1>1, <1>2, <1>6, <2>1 DEF RtcTypes
<1>8. ~jumped => time = Epoch2000 + ToSecs(rtc')
  <2> SUFFICES ASSUME ~jumped PROVE time = Epoch2000 + ToSecs(rtc')
    OBVIOUS
  <2>1. time - local[t] = rtc.secs - ((local[t] - Epoch2000) % SecsPerDay)
    BY <1>1, <1>2 DEF TaskFits
  <2>2. ToSecs(date) \in Nat
    BY <1>4, ToSecsIsNat
  <2> DEFINE x == (local[t] - Epoch2000) % SecsPerDay
  <2>3. x \in Int /\ date.secs = x /\ time - local[t] = rtc.secs - x
    BY <1>4, <2>1
  <2> HIDE DEF x
  <2>4. ToSecs(rtc') = ToSecs(date) - x + rtc.secs /\ rtc.secs \in Int /\ Epoch2000 \in Int
    BY <1>5, <1>6, <2>3, SecsAssumption
  <2> QED
    BY <1>2, <1>3, <1>4, <2>2, <2>3, <2>4
<1>9. FreeAgrees' /\ TaskFits(t)'
  BY <1>1, <1>3, <1>8 DEF FreeAgrees, TaskFits
<1>10. ASSUME NEW u \in Tasks, u # t PROVE TaskFits(u)'
  <2>1. pc'[u] = pc[u] /\ local'[u] = local[u] /\ known'[u] = known[u]
    BY <1>1, <1>2, <1>10
  <2> QED
    BY <1>1, <1>3, <1>10, <2>1, OthersKeep
<1> QED
  BY <1>7, <1>9, <1>10 DEF RtcInv

LEMMA RtcStepKeeps == RtcInv /\ (RtcStep \/ UNCHANGED rtcVars) => RtcInv'
<1> SUFFICES ASSUME RtcInv, RtcStep \/ UNCHANGED rtcVars PROVE RtcInv'
  OBVIOUS
<1>1. CASE Tick
  BY <1>1, TickKeeps
<1>2. ASSUME NEW t \in Tasks, Get(t) PROVE RtcInv'
  BY <1>2, GetKeeps
<1>3. ASSUME NEW t \in Tasks, GetTime(t) PROVE RtcInv'
  BY <1>3, GetTimeKeeps
<1>4. ASSUME NEW t \in Tasks, GetDate(t) PROVE RtcInv'
  BY <1>4, GetDateKeeps
<1>5. ASSUME NEW t \in Tasks, Return(t) \/ Delete(t) \/ Create(t) PROVE RtcInv'
  <2>1. \E p \in {"idle", "deleted"} : pc' = [pc EXCEPT ![t] = p]
    BY <1>5 DEF Return, Delete, Create
  <2>2. /\ local' \in {local, [local EXCEPT ![t] = 0]} /\ known' \in {known, [known EXCEPT ![t] = 0]}
        /\ UNCHANGED <<rtc, mutex, time, jumped>>
    BY <1>5 DEF Return, Delete, Create
  <2> QED
    BY <2>1, <2>2, LeaveKeeps
<1>6. ASSUME NEW t \in Tasks, NEW epoch \in Times, Set(t, epoch) PROVE RtcInv'
  BY <1>6, SetKeeps
<1>7. ASSUME NEW t \in Tasks, SetTime(t) PROVE RtcInv'
  BY <1>7, SetTimeKeeps
<1>8. ASSUME NEW t \in Tasks, SetDate(t) PROVE RtcInv'
  BY <1>8, SetDateKeeps
<1>9. CASE UNCHANGED rtcVars
  BY <1>9 DEF rtcVars, RtcInv, RtcTypes, FreeAgrees, TaskFits
<1> QED
  BY <1>1, <1>2, <1>3, <1>4, <1>5, <1>6, <1>7, <1>8, <1>9 DEF RtcStep

-----------------------------------------------------------------------------
(* Bytes and frames *)

LEMMA BytesInvert ==
    ASSUME NEW n \in Times
    PROVE  FromBytes(ToBytes(n)) = n
<1>1. n \in Nat /\ n < Epoch2000 + DaysToYear[LastYear + 1] * SecsPerDay
      /\ Epoch2000 + DaysToYear[LastYear + 1] * SecsPerDay \in Nat
  <2>1. LastYear \in FirstYear..LastYear
    BY YearAssumption DEF FirstYear
  <2>2. DaysToYear[LastYear + 1] \in Nat
    BY <2>1, YearLength DEF YearFits
  <2>3. DaysToYear[LastYear + 1] * SecsPerDay \in Nat
    BY <2>2, SecsAssumption
  <2> QED
    BY <2>3, SecsAssumption DEF Times
<1> DEFINE limit == Epoch2000 + DaysToYear[LastYear + 1] * SecsPerDay
<1>2. limit \in Nat /\ n < limit /\ limit \div 16777216 < 256
  BY <1>1, WordAssumption
<1> HIDE DEF limit
<1>3. n \div 16777216 \in 0..255
  BY <1>1, <1>2
<1>4. /\ Byte(n \div 16777216) = n \div 16777216
      /\ Byte(n \div 65536) = (n \div 65536) - 256 * (n \div 16777216)
      /\ Byte(n \div 256) = (n \div 256) - 256 * (n \div 65536)
      /\ Byte(n) = n - 256 * (n \div 256)
  BY <1>1, <1>3 DEF Byte
<1>5. /\ ToBytes(n)[1] = Byte(n \div 16777216) /\ ToBytes(n)[2] = Byte(n \div 65536)
      /\ ToBytes(n)[3] = Byte(n \div 256) /\ ToBytes(n)[4] = Byte(n)
  BY DEF ToBytes
<1>6. /\ n \div 16777216 \in Int /\ n \div 65536 \in Int /\ n \div 256 \in Int
  BY <1>1
<1> QED
  BY <1>1, <1>4, <1>5, <1>6 DEF FromBytes

Bytes == 0..255

LEMMA Concatenated ==
    ASSUME NEW u \in Seq(Bytes), NEW v \in Seq(Bytes)
    PROVE  /\ u \o v \in Seq(Bytes) /\ Len(u \o v) = Len(u) + Len(v)
           /\ \A k \in 1..Len(v) : (u \o v)[Len(u) + k] = v[k]
           /\ \A k \in 1..Len(u) : (u \o v)[k] = u[k]
<1>1. Len(u) \in Nat /\ Len(v) \in Nat
  OBVIOUS
<1>2. u \o v \in Seq(Bytes) /\ Len(u \o v) = Len(u) + Len(v)
  OBVIOUS
<1>3. \A k \in 1..Len(v) : (u \o v)[Len(u) + k] = v[k]
  BY <1>1
<1>4. \A k \in 1..Len(u) : (u \o v)[k] = u[k]
  BY <1>1
<1> QED
  BY <1>2, <1>3, <1>4

LEMMA BytesOfCommand ==
    ASSUME NEW n \in Times
    PROVE  /\ TimeCommand(n) \in Seq(Bytes) /\ Len(TimeCommand(n)) = 6
           /\ FromBytes(SubSeq(TimeCommand(n), 3, 6)) = n
<1> DEFINE b == ToBytes(n)
<1>1. n \in Nat
  BY DEF Times
<1>2. b = <<Byte(n \div 16777216), Byte(n \div 65536), Byte(n \div 256), Byte(n)>>
  BY DEF ToBytes
<1>3. Byte(n \div 16777216) \in 0..255 /\ Byte(n \div 65536) \in 0..255
      /\ Byte(n \div 256) \in 0..255 /\ Byte(n) \in 0..255
  BY <1>1 DEF Byte
<1> DEFINE u == <<1, UploadUnixTime>>
<1>4. TimeCommand(n) = u \o b
  BY DEF TimeCommand
<1>5. b \in Seq(Bytes) /\ Len(b) = 4 /\ u \in Seq(Bytes) /\ Len(u) = 2
  BY <1>2, <1>3 DEF UploadUnixTime, Bytes
<1>6. FromBytes(b) = n
  BY BytesInvert
<1> HIDE DEF b, u
<1>7. TimeCommand(n) \in Seq(Bytes) /\ Len(TimeCommand(n)) = 6
      /\ \A k \in 1..4 : TimeCommand(n)[2 + k] = b[k]
  <2>1. /\ u \o b \in Seq(Bytes) /\ Len(u \o b) = Len(u) + Len(b)
        /\ \A k \in 1..Len(b) : (u \o b)[Len(u) + k] = b[k]
    BY <1>5, Concatenated
  <2> QED
    BY <1>4, <1>5, <2>1
<1>8. \A k \in 1..4 : SubSeq(TimeCommand(n), 3, 6)[k] = TimeCommand(n)[2 + k]
  BY <1>7
<1>9. \A k \in 1..4 : SubSeq(TimeCommand(n), 3, 6)[k] = b[k]
  BY <1>7, <1>8
<1>10. FromBytes(SubSeq(TimeCommand(n), 3, 6)) = FromBytes(b)
  BY <1>9 DEF FromBytes
<1> QED
  BY <1>6, <1>7, <1>10

\* A frame of its parts.
FrameOf(v, type, flags, seq, len, payload, tag, size) ==
    [header |-> [ver |-> v, type |-> type, flags |-> flags, seq |-> seq, len |-> len],
     payload |-> payload, tag |-> tag, size |-> size]

\* What AirDecode accepts.
Accepts(v, type, flags, seq, len, payload, tag, size) ==
    /\ size >= 5 /\ v = 2 /\ (5 + len) % 256 <= size /\ "AUTH_TAG" \in flags
    /\ (((5 + len) % 256) + 8) % 256 <= size /\ len = Len(payload)
    /\ tag = Hmac([ver |-> v, type |-> type, flags |-> flags \ {"IS_RETX"},
                   seq |-> seq, len |-> len], payload)

LEMMA MarkOf ==
    ASSUME NEW v, NEW ty, NEW fs, NEW sq, NEW n, NEW p, NEW tag, NEW size
    PROVE  MarkRetx(FrameOf(v, ty, fs, sq, n, p, tag, size)) =
             FrameOf(v, ty, fs \union {"IS_RETX"}, sq, n, p, tag, size)
  BY DEF MarkRetx, FrameOf

LEMMA DecodeOf ==
    ASSUME NEW v, NEW ty, NEW fs, NEW sq, NEW n \in Bytes, NEW p, NEW tag, NEW size \in Nat
    PROVE  AirDecode(FrameOf(v, ty, fs, sq, n, p, tag, size)) =
             IF Accepts(v, ty, fs, sq, n, p, tag, size)
             THEN [type |-> ty, flags |-> fs, seq |-> sq, payload |-> p]
             ELSE Rejected
<1> DEFINE h == [ver |-> v, type |-> ty, flags |-> fs, seq |-> sq, len |-> n]
           f == FrameOf(v, ty, fs, sq, n, p, tag, size)
<1>1. f.header = h /\ f.payload = p /\ f.tag = tag /\ f.size = size
  BY DEF FrameOf
<1>2. h.ver = v /\ h.type = ty /\ h.flags = fs /\ h.seq = sq /\ h.len = n
  OBVIOUS
<1>3. [h EXCEPT !.flags = @ \ {"IS_RETX"}] =
        [ver |-> v, type |-> ty, flags |-> fs \ {"IS_RETX"}, seq |-> sq, len |-> n]
  OBVIOUS
<1> HIDE DEF f, h
<1>4. AuthVerify(h, p, tag) <=>
        tag = Hmac([ver |-> v, type |-> ty, flags |-> fs \ {"IS_RETX"}, seq |-> sq, len |-> n], p)
  BY <1>3 DEF AuthVerify, AuthTag
<1>5. DecodeRaw(f) <=> size >= 5 /\ v = 2 /\ (5 + n) % 256 <= size
  BY <1>1, <1>2 DEF DecodeRaw, AirFrameHdr, ProtocolVer, Byte
<1>6. Byte(Byte(AirFrameHdr + n) + AuthTagLen) = (((5 + n) % 256) + 8) % 256
  BY DEF Byte, AirFrameHdr, AuthTagLen
<1> QED
  BY <1>1, <1>2, <1>4, <1>5, <1>6 DEF AirDecode, f, Accepts

TagOf(type, seq, len, payload) ==
    Hmac([ver |-> 2, type |-> type, flags |-> {"REQUIRES_ACK", "AUTH_TAG"},
          seq |-> seq, len |-> len], payload)

\* What the ground station and the satellite send of time.
Sent(type, flags, seq, len, payload) ==
    FrameOf(2, type, flags, seq, len, payload, TagOf(type, seq, len, payload), 13 + len)

LEMMA EncodeIs ==
    ASSUME NEW ty, NEW sq, NEW p, NEW n \in {6, 8}, Len(p) = n
    PROVE  AirEncode(ty, {"REQUIRES_ACK"}, sq, p) =
             Sent(ty, {"REQUIRES_ACK", "AUTH_TAG"}, sq, n, p)
<1> DEFINE fs == {"REQUIRES_ACK"} \union {"AUTH_TAG"}
           h == [ver |-> ProtocolVer, type |-> ty, flags |-> fs, seq |-> sq, len |-> n]
<1>1. fs = {"REQUIRES_ACK", "AUTH_TAG"} /\ fs \ {"IS_RETX"} = fs
  OBVIOUS
<1>2. [h EXCEPT !.flags = @ \ {"IS_RETX"}] = h
  <2> HIDE DEF fs
  <2>1. [h EXCEPT !.flags = @ \ {"IS_RETX"}] =
          [ver |-> ProtocolVer, type |-> ty, flags |-> fs \ {"IS_RETX"}, seq |-> sq, len |-> n]
    OBVIOUS
  <2> QED
    BY <1>1, <2>1
<1>3. AuthTag(h, p) = Hmac(h, p)
  BY <1>2 DEF AuthTag
<1>4. Byte(Byte(AirFrameHdr + n) + AuthTagLen) = 13 + n /\ ~(n > AirPayloadMaxAuth)
  BY DEF Byte, AirFrameHdr, AuthTagLen, AirPayloadMaxAuth
<1>5. h = [ver |-> 2, type |-> ty, flags |-> {"REQUIRES_ACK", "AUTH_TAG"}, seq |-> sq, len |-> n]
  BY <1>1 DEF ProtocolVer
<1>6. AirEncode(ty, {"REQUIRES_ACK"}, sq, p) =
        [header |-> h, payload |-> p, tag |-> AuthTag(h, p),
         size |-> Byte(Byte(AirFrameHdr + n) + AuthTagLen)]
  BY <1>4 DEF AirEncode
<1> HIDE DEF h, fs
<1> QED
  BY <1>3, <1>4, <1>5, <1>6 DEF FrameOf, Sent, TagOf

SentFlags == {{"REQUIRES_ACK", "AUTH_TAG"}, {"REQUIRES_ACK", "AUTH_TAG", "IS_RETX"}}

LEMMA RetransmittedIs ==
    ASSUME NEW ty, NEW sq, NEW n, NEW p
    PROVE  MarkRetx(Sent(ty, {"REQUIRES_ACK", "AUTH_TAG"}, sq, n, p)) =
             Sent(ty, {"REQUIRES_ACK", "AUTH_TAG", "IS_RETX"}, sq, n, p)
<1>1. {"REQUIRES_ACK", "AUTH_TAG"} \union {"IS_RETX"} = {"REQUIRES_ACK", "AUTH_TAG", "IS_RETX"}
  OBVIOUS
<1> QED
  BY <1>1, MarkOf DEF Sent

\* A frame as it was sent, the first time or again, is accepted with its sequence number,
\* type and payload.
LEMMA SentIsAccepted ==
    ASSUME NEW ty, NEW sq, NEW p, NEW n \in {6, 8}, Len(p) = n, NEW fs \in SentFlags
    PROVE  /\ AirDecode(Sent(ty, fs, sq, n, p)) =
                [type |-> ty, flags |-> fs, seq |-> sq, payload |-> p]
           /\ AirDecode(Sent(ty, fs, sq, n, p)) # Rejected
           /\ Sent(ty, fs, sq, n, p) # NoFrame
<1>1. n \in Bytes /\ 13 + n \in Nat
  BY DEF Bytes
<1>2. "AUTH_TAG" \in fs /\ fs \ {"IS_RETX"} = {"REQUIRES_ACK", "AUTH_TAG"}
  BY DEF SentFlags
<1>3. 13 + n >= 5 /\ (5 + n) % 256 <= 13 + n /\ (((5 + n) % 256) + 8) % 256 <= 13 + n
  OBVIOUS
<1>4. Accepts(2, ty, fs, sq, n, p, TagOf(ty, sq, n, p), 13 + n)
  BY <1>2, <1>3 DEF Accepts, TagOf
<1>5. AirDecode(Sent(ty, fs, sq, n, p)) = [type |-> ty, flags |-> fs, seq |-> sq, payload |-> p]
  BY <1>1, <1>4, DecodeOf DEF Sent
<1>6. [type |-> ty, flags |-> fs, seq |-> sq, payload |-> p] # Rejected
  BY DEF Rejected
<1>7. Sent(ty, fs, sq, n, p).size = 13 + n /\ NoFrame.size = 0 /\ 13 + n # 0
  BY DEF Sent, FrameOf, NoFrame
<1> QED
  BY <1>5, <1>6, <1>7

LEMMA RejectedUnless ==
    ASSUME NEW v, NEW ty, NEW fs, NEW sq, NEW n \in Bytes, NEW p, NEW tag, NEW size \in Nat,
           ~Accepts(v, ty, fs, sq, n, p, tag, size)
    PROVE  AirDecode(FrameOf(v, ty, fs, sq, n, p, tag, size)) = Rejected
  BY DecodeOf

LEMMA ThirdElement == ASSUME NEW S, NEW s \in Seq(S), Len(s) = 6 PROVE s[3] \in S
OBVIOUS

\* Whatever the air does to a command, it is rejected.
LEMMA HarmedIsRejected ==
    ASSUME NEW sq \in Bytes, NEW p \in Seq(Bytes), Len(p) = 6, NEW fs \in SentFlags,
           NEW g \in Harmed(Sent("TC", fs, sq, 6, p))
    PROVE  AirDecode(g) = Rejected
<1> DEFINE tag == TagOf("TC", sq, 6, p)
           f == Sent("TC", fs, sq, 6, p)
           kept == {"REQUIRES_ACK", "AUTH_TAG"}
<1>1. f = FrameOf(2, "TC", fs, sq, 6, p, tag, 19)
  BY DEF Sent
<1>2. fs \ {"IS_RETX"} = kept /\ 6 \in Bytes /\ 19 \in Nat
  BY DEF SentFlags, Bytes
<1>3. tag = Hmac([ver |-> 2, type |-> "TC", flags |-> kept, seq |-> sq, len |-> 6], p)
  BY DEF TagOf
<1>4. f.header.seq = sq /\ f.header.len = 6 /\ f.size = 19 /\ f.payload = p
  BY <1>1 DEF FrameOf
<1> HIDE DEF f, tag, kept
<1>5. CASE g = [f EXCEPT !.header.ver = 1]
  <2>1. g = FrameOf(1, "TC", fs, sq, 6, p, tag, 19)
    BY <1>1, <1>5 DEF FrameOf
  <2>2. ~Accepts(1, "TC", fs, sq, 6, p, tag, 19)
    BY DEF Accepts
  <2> QED
    BY <1>2, <2>1, <2>2, RejectedUnless
<1>6. CASE g = [f EXCEPT !.header.type = "TM"]
  <2>1. g = FrameOf(2, "TM", fs, sq, 6, p, tag, 19)
    BY <1>1, <1>6 DEF FrameOf
  <2>2. ~Accepts(2, "TM", fs, sq, 6, p, tag, 19)
    BY <1>3 DEF Accepts, Hmac
  <2> QED
    BY <1>2, <2>1, <2>2, RejectedUnless
<1>7. CASE g = [f EXCEPT !.header.seq = Byte(f.header.seq + 1)]
  <2>1. g = FrameOf(2, "TC", fs, Byte(sq + 1), 6, p, tag, 19)
    BY <1>1, <1>4, <1>7 DEF FrameOf
  <2>2. Byte(sq + 1) # sq
    BY DEF Byte, Bytes
  <2>3. ~Accepts(2, "TC", fs, Byte(sq + 1), 6, p, tag, 19)
    BY <1>3, <2>2 DEF Accepts, Hmac
  <2> QED
    BY <1>2, <2>1, <2>3, RejectedUnless
<1>8. CASE g = [f EXCEPT !.payload[3] = Byte(@ + 1)]
  <2> DEFINE q == [p EXCEPT ![3] = Byte(@ + 1)]
  <2>1. g = FrameOf(2, "TC", fs, sq, 6, q, tag, 19)
    BY <1>1, <1>8 DEF FrameOf
  <2>2. q # p
    <3>1. p[3] \in Bytes
      BY ThirdElement
    <3>2. Byte(p[3] + 1) # p[3]
      <4>1. \A b \in 0..255 : Byte(b + 1) # b
        BY DEF Byte
      <4> QED
        BY <3>1, <4>1 DEF Bytes
    <3>3. q[3] = Byte(p[3] + 1)
      OBVIOUS
    <3> QED
      BY <3>2, <3>3
  <2> HIDE DEF q
  <2>3. ~Accepts(2, "TC", fs, sq, 6, q, tag, 19)
    BY <1>3, <2>2 DEF Accepts, Hmac
  <2> QED
    BY <1>2, <2>1, <2>3, RejectedUnless
<1>9. CASE g = [f EXCEPT !.tag = Rejected]
  <2>1. g = FrameOf(2, "TC", fs, sq, 6, p, Rejected, 19)
    BY <1>1, <1>9 DEF FrameOf
  <2>2. ~Accepts(2, "TC", fs, sq, 6, p, Rejected, 19)
    BY DEF Accepts, Hmac, Rejected
  <2> QED
    BY <1>2, <2>1, <2>2, RejectedUnless
<1>10. ASSUME NEW gs \in {{}, {"AUTH_TAG"}}, g = [f EXCEPT !.header.flags = gs]
       PROVE  AirDecode(g) = Rejected
  <2>1. g = FrameOf(2, "TC", gs, sq, 6, p, tag, 19)
    BY <1>1, <1>10 DEF FrameOf
  <2>2. gs \ {"IS_RETX"} # kept
    <3>1. "REQUIRES_ACK" \in kept /\ "REQUIRES_ACK" \notin gs
      BY DEF kept
    <3> QED
      BY <3>1
  <2>3. ~Accepts(2, "TC", gs, sq, 6, p, tag, 19)
    BY <1>3, <2>2 DEF Accepts, Hmac
  <2> QED
    BY <1>2, <2>1, <2>3, RejectedUnless
<1>11. ASSUME NEW n \in {0, 5, 7, 242, 251, 255}, g = [f EXCEPT !.header.len = n]
       PROVE  AirDecode(g) = Rejected
  <2>1. g = FrameOf(2, "TC", fs, sq, n, p, tag, 19)
    BY <1>1, <1>11 DEF FrameOf
  <2>2. n \in Bytes /\ n # 6
    BY DEF Bytes
  <2>3. ~Accepts(2, "TC", fs, sq, n, p, tag, 19)
    BY <2>2 DEF Accepts
  <2> QED
    BY <1>2, <2>1, <2>2, <2>3, RejectedUnless
<1>12. ASSUME NEW n \in {1, 5, 18}, g = [f EXCEPT !.size = n]
       PROVE  AirDecode(g) = Rejected
  <2>1. g = FrameOf(2, "TC", fs, sq, 6, p, tag, n)
    BY <1>1, <1>12 DEF FrameOf
  <2>2. ~Accepts(2, "TC", fs, sq, 6, p, tag, n)
    BY DEF Accepts
  <2>3. n \in Nat
    OBVIOUS
  <2> QED
    BY <1>2, <2>1, <2>2, <2>3, RejectedUnless
<1>13. g \in Harmed(f) /\ f.size - 1 = 18
  BY <1>4 DEF f
<1> QED
  BY <1>4, <1>5, <1>6, <1>7, <1>8, <1>9, <1>10, <1>11, <1>12, <1>13 DEF Harmed

-----------------------------------------------------------------------------
(* The frames on the air *)

ReportOf(n, s) == <<1, HkLive>> \o ToBytes(n) \o <<UploadUnixTime, s>>

LEMMA BytesOfReport ==
    ASSUME NEW n \in Times, NEW s \in Bytes
    PROVE  /\ Len(ReportOf(n, s)) = 8
           /\ FromBytes(SubSeq(ReportOf(n, s), 3, 6)) = n
<1> DEFINE b == ToBytes(n)
           u == <<1, HkLive>>
           w == <<UploadUnixTime, s>>
           p == ReportOf(n, s)
<1>1. n \in Nat
  BY DEF Times
<1>2. b = <<Byte(n \div 16777216), Byte(n \div 65536), Byte(n \div 256), Byte(n)>>
  BY DEF ToBytes
<1>3. Byte(n \div 16777216) \in Bytes /\ Byte(n \div 65536) \in Bytes
      /\ Byte(n \div 256) \in Bytes /\ Byte(n) \in Bytes
  BY <1>1 DEF Byte, Bytes
<1>4. p = (u \o b) \o w
  BY DEF ReportOf
<1>5. /\ b \in Seq(Bytes) /\ Len(b) = 4 /\ u \in Seq(Bytes) /\ Len(u) = 2
      /\ w \in Seq(Bytes) /\ Len(w) = 2
  BY <1>2, <1>3 DEF UploadUnixTime, HkLive, Bytes
<1>6. FromBytes(b) = n
  BY BytesInvert
<1> HIDE DEF b, u, w, p
<1>7. /\ u \o b \in Seq(Bytes) /\ Len(u \o b) = 6
      /\ \A k \in 1..4 : (u \o b)[2 + k] = b[k]
  <2>1. /\ u \o b \in Seq(Bytes) /\ Len(u \o b) = Len(u) + Len(b)
        /\ \A k \in 1..Len(b) : (u \o b)[Len(u) + k] = b[k]
    BY <1>5, Concatenated
  <2> QED
    BY <1>5, <2>1
<1>8. p \in Seq(Bytes) /\ Len(p) = 8 /\ \A k \in 1..6 : p[k] = (u \o b)[k]
  <2>1. /\ (u \o b) \o w \in Seq(Bytes) /\ Len((u \o b) \o w) = Len(u \o b) + Len(w)
        /\ \A k \in 1..Len(u \o b) : ((u \o b) \o w)[k] = (u \o b)[k]
    BY <1>5, <1>7, Concatenated
  <2> QED
    BY <1>4, <1>5, <1>7, <2>1
<1>9. \A k \in 1..4 : SubSeq(p, 3, 6)[k] = p[2 + k]
  BY <1>8
<1>10. \A k \in 1..4 : SubSeq(p, 3, 6)[k] = b[k]
  <2>1. ASSUME NEW k \in 1..4 PROVE p[2 + k] = (u \o b)[2 + k]
    <3>1. 2 + k \in 1..6
      OBVIOUS
    <3> QED
      BY <1>8, <3>1
  <2> QED
    BY <1>7, <1>9, <2>1
<1>11. FromBytes(SubSeq(p, 3, 6)) = FromBytes(b)
  BY <1>10 DEF FromBytes
<1> QED
  BY <1>6, <1>8, <1>11 DEF p

FirstFlags == {"REQUIRES_ACK", "AUTH_TAG"}
CommandOf(epoch, flags) == Sent("TC", flags, upSeq, 6, TimeCommand(epoch))

CommandFits == command # NoFrame => \E epoch \in Epochs : command = CommandOf(epoch, FirstFlags)

\* What is on the way up is the command as it was encoded, or that marked as sent again.
UpFits ==
    up # NoFrame =>
        \E epoch \in Epochs : /\ command = CommandOf(epoch, FirstFlags)
                              /\ \E fs \in SentFlags : up = CommandOf(epoch, fs)

\* What TRANSCEIVER passed on is the payload of a command that nobody sends any more.
RxFits == rxq # <<>> => command = NoFrame /\ \E epoch \in Epochs : rxq = TimeCommand(epoch)

\* What is on the way down was read by a task that has not gone on.
DownFits ==
    down # NoFrame =>
        \E t \in Readers, s \in Bytes : \E r :
            /\ pc[t] = "got"
            /\ down = Sent("TM", FirstFlags, r, 8, ReportOf(local[t], s))

LinkInv == upSeq \in Bytes /\ outcome = "none" /\ CommandFits /\ UpFits /\ RxFits /\ DownFits

LEMMA CommandIs ==
    ASSUME NEW epoch \in Epochs, upSeq \in Bytes
    PROVE  /\ AirEncode("TC", {"REQUIRES_ACK"}, upSeq, TimeCommand(epoch)) = CommandOf(epoch, FirstFlags)
           /\ \A fs \in SentFlags :
                /\ CommandOf(epoch, fs) # NoFrame /\ AirDecode(CommandOf(epoch, fs)) # Rejected
                /\ AirDecode(CommandOf(epoch, fs)) =
                     [type |-> "TC", flags |-> fs, seq |-> upSeq, payload |-> TimeCommand(epoch)]
                /\ \A g \in Harmed(CommandOf(epoch, fs)) : AirDecode(g) = Rejected
           /\ MarkRetx(CommandOf(epoch, FirstFlags)) =
                CommandOf(epoch, {"REQUIRES_ACK", "AUTH_TAG", "IS_RETX"})
<1>1. TimeCommand(epoch) \in Seq(Bytes) /\ Len(TimeCommand(epoch)) = 6
  BY EpochsInReach, BytesOfCommand
<1>2. AirEncode("TC", {"REQUIRES_ACK"}, upSeq, TimeCommand(epoch)) = CommandOf(epoch, FirstFlags)
  BY <1>1, EncodeIs DEF CommandOf, FirstFlags
<1>3. ASSUME NEW fs \in SentFlags
      PROVE  /\ CommandOf(epoch, fs) # NoFrame /\ AirDecode(CommandOf(epoch, fs)) # Rejected
             /\ AirDecode(CommandOf(epoch, fs)) =
                  [type |-> "TC", flags |-> fs, seq |-> upSeq, payload |-> TimeCommand(epoch)]
  <2>1. \E n \in {6, 8} : n = 6 /\ Len(TimeCommand(epoch)) = n
    BY <1>1
  <2>2. PICK n \in {6, 8} : n = 6 /\ Len(TimeCommand(epoch)) = n
    BY <2>1
  <2>3. CommandOf(epoch, fs) = Sent("TC", fs, upSeq, n, TimeCommand(epoch))
    BY <2>2 DEF CommandOf
  <2> QED
    BY <2>2, <2>3, SentIsAccepted
<1>4. ASSUME NEW fs \in SentFlags, NEW g \in Harmed(CommandOf(epoch, fs))
      PROVE  AirDecode(g) = Rejected
  BY <1>1, <1>4, HarmedIsRejected DEF CommandOf
<1>5. MarkRetx(CommandOf(epoch, FirstFlags)) =
        CommandOf(epoch, {"REQUIRES_ACK", "AUTH_TAG", "IS_RETX"})
  BY RetransmittedIs DEF CommandOf, FirstFlags
<1> QED
  BY <1>2, <1>3, <1>4, <1>5

LEMMA ReceiveKeeps ==
    ASSUME LinkInv, up # NoFrame, NEW frame, frame = up \/ frame \in Harmed(up), Receive(frame)
    PROVE  LinkInv'
<1>1. upSeq \in Bytes /\ outcome = "none" /\ CommandFits /\ UpFits /\ RxFits /\ DownFits
  BY DEF LinkInv
<1>2. PICK epoch \in Epochs, fs \in SentFlags :
          command = CommandOf(epoch, FirstFlags) /\ up = CommandOf(epoch, fs)
  BY <1>1 DEF UpFits
<1>3. FirstFlags \in SentFlags /\ FirstFlags \ {"IS_RETX"} = fs \ {"IS_RETX"}
  BY DEF FirstFlags, SentFlags
<1>4. /\ command # NoFrame /\ AirDecode(up) # Rejected
      /\ AirDecode(up) = [type |-> "TC", flags |-> fs, seq |-> upSeq, payload |-> TimeCommand(epoch)]
      /\ AirDecode(command) =
           [type |-> "TC", flags |-> FirstFlags, seq |-> upSeq, payload |-> TimeCommand(epoch)]
      /\ \A g \in Harmed(up) : AirDecode(g) = Rejected
  BY <1>1, <1>2, <1>3, CommandIs
<1>5. up' = NoFrame /\ pc' = pc /\ local' = local /\ down' = down
  BY DEF Receive, rtcVars
<1>6. DownFits' /\ UpFits'
  BY <1>1, <1>5 DEF DownFits, UpFits
<1>7. CASE AirDecode(frame) = Rejected
  <2>1. frame # up
    BY <1>4, <1>7
  <2>2. outcome' = "none" /\ command' = command /\ rxq' = rxq /\ upSeq' = upSeq
    BY <1>7, <2>1 DEF Receive
  <2> QED
    BY <1>1, <1>6, <2>2 DEF LinkInv, CommandFits, RxFits, CommandOf
<1>8. CASE AirDecode(frame) # Rejected
  <2>1. frame = up
    BY <1>4, <1>8
  <2> DEFINE f == AirDecode(up)
             g == AirDecode(command)
  <2>2. [f EXCEPT !.flags = @ \ {"IS_RETX"}] = [g EXCEPT !.flags = @ \ {"IS_RETX"}]
    <3>1. [f EXCEPT !.flags = @ \ {"IS_RETX"}] =
            [type |-> "TC", flags |-> fs \ {"IS_RETX"}, seq |-> upSeq, payload |-> TimeCommand(epoch)]
      BY <1>4
    <3>2. [g EXCEPT !.flags = @ \ {"IS_RETX"}] =
            [type |-> "TC", flags |-> FirstFlags \ {"IS_RETX"}, seq |-> upSeq,
             payload |-> TimeCommand(epoch)]
      BY <1>4
    <3> QED
      BY <1>3, <3>1, <3>2
  <2>3. f.payload = TimeCommand(epoch)
    BY <1>4
  <2>4. outcome' = "none" /\ rxq' = f.payload /\ command' = NoFrame /\ upSeq' = Byte(upSeq + 1)
    BY <1>8, <2>1, <2>2 DEF Receive
  <2>5. upSeq' \in Bytes
    BY <1>1, <2>4 DEF Byte, Bytes
  <2> QED
    BY <1>6, <2>3, <2>4, <2>5 DEF LinkInv, CommandFits, RxFits
<1> QED
  BY <1>7, <1>8

LEMMA TInitFits == TInit => RtcInv /\ LinkInv
<1> SUFFICES ASSUME TInit PROVE RtcInv /\ LinkInv
  OBVIOUS
<1>1. RtcInv
  BY RtcStarts DEF TInit
<1>2. 0 \in Bytes
  BY DEF Bytes
<1>3. LinkInv
  BY <1>2 DEF TInit, LinkInv, CommandFits, UpFits, RxFits, DownFits
<1> QED
  BY <1>1, <1>3

\* What tc_process sets is what was sent.
LEMMA ProcessSetsEpochs ==
    ASSUME LinkInv, NEW t \in Setters, Process(t)
    PROVE  \E epoch \in Times : Set(t, epoch)
<1>1. Len(rxq) >= 6 /\ Set(t, FromBytes(SubSeq(rxq, 3, 6)))
  BY DEF Process
<1>2. rxq # <<>>
  BY <1>1
<1>3. PICK epoch \in Epochs : rxq = TimeCommand(epoch)
  BY <1>2 DEF LinkInv, RxFits
<1>4. epoch \in Times
  BY EpochsInReach
<1>5. FromBytes(SubSeq(rxq, 3, 6)) = epoch
  BY <1>3, <1>4, BytesOfCommand
<1> QED
  BY <1>1, <1>4, <1>5

\* Steps of the clock leave what is on the way down behind a task that has not gone on.
LEMMA SetKeepsGot ==
    ASSUME LinkInv, RtcInv, NEW t \in Tasks, NEW epoch, Set(t, epoch), UNCHANGED down
    PROVE  DownFits'
<1> SUFFICES ASSUME down # NoFrame PROVE DownFits'
  BY DEF DownFits
<1>1. PICK u \in Readers, s \in Bytes :
          \E r : pc[u] = "got" /\ down = Sent("TM", FirstFlags, r, 8, ReportOf(local[u], s))
  BY DEF LinkInv, DownFits
<1>2. /\ pc[t] = "idle" /\ pc' = [pc EXCEPT ![t] = "set"] /\ local' = [local EXCEPT ![t] = epoch]
      /\ pc \in [Tasks -> Points] /\ local \in [Tasks -> Nat] /\ u \in Tasks
  BY DEF Set, RtcInv, RtcTypes, Tasks
<1>3. u # t /\ pc'[u] = pc[u] /\ local'[u] = local[u]
  BY <1>1, <1>2
<1> QED
  BY <1>1, <1>3 DEF DownFits

LEMMA TNextKeeps == RtcInv /\ LinkInv /\ [TNext]_all => (RtcInv /\ LinkInv)'
<1> SUFFICES ASSUME RtcInv, LinkInv, [TNext]_all PROVE (RtcInv /\ LinkInv)'
  OBVIOUS
<1>1. upSeq \in Bytes /\ outcome = "none" /\ CommandFits /\ UpFits /\ RxFits /\ DownFits
  BY DEF LinkInv
<1>2. CASE Tick /\ UNCHANGED link
  <2>1. RtcInv'
    BY <1>2, RtcStepKeeps DEF RtcStep
  <2>2. pc' = pc /\ local' = local
    BY <1>2 DEF Tick
  <2>3. LinkInv'
    BY <1>1, <1>2, <2>2 DEF LinkInv, link, CommandFits, UpFits, RxFits, DownFits, CommandOf
  <2> QED
    BY <2>1, <2>3
<1>3. CASE GroundCommand
  <2>1. RtcInv' /\ pc' = pc /\ local' = local
    BY <1>3, RtcStepKeeps DEF GroundCommand, rtcVars
  <2>2. PICK epoch \in Epochs : command' = AirEncode("TC", {"REQUIRES_ACK"}, upSeq, TimeCommand(epoch))
    BY <1>3 DEF GroundCommand
  <2>3. command' = CommandOf(epoch, FirstFlags) /\ up' = command' /\ FirstFlags \in SentFlags
    BY <1>1, <1>3, <2>2, CommandIs DEF GroundCommand, FirstFlags, SentFlags
  <2>4. rxq = <<>> /\ UNCHANGED <<down, rxq, outcome, upSeq>>
    BY <1>3 DEF GroundCommand
  <2>5. CommandFits' /\ UpFits'
    BY <2>3, <2>4 DEF CommandFits, UpFits, CommandOf
  <2>6. RxFits' /\ DownFits'
    BY <1>1, <2>1, <2>4 DEF RxFits, DownFits
  <2> QED
    BY <1>1, <2>1, <2>4, <2>5, <2>6 DEF LinkInv
<1>4. CASE GroundRetransmit
  <2>1. RtcInv' /\ pc' = pc /\ local' = local
    BY <1>4, RtcStepKeeps DEF GroundRetransmit, rtcVars
  <2>2. command # NoFrame /\ up' = MarkRetx(command) /\ UNCHANGED <<command, down, rxq, outcome, upSeq>>
    BY <1>4 DEF GroundRetransmit
  <2>3. PICK epoch \in Epochs : command = CommandOf(epoch, FirstFlags)
    BY <1>1, <2>2 DEF CommandFits
  <2>4. /\ up' = CommandOf(epoch, {"REQUIRES_ACK", "AUTH_TAG", "IS_RETX"})
        /\ {"REQUIRES_ACK", "AUTH_TAG", "IS_RETX"} \in SentFlags
    BY <1>1, <2>2, <2>3, CommandIs DEF SentFlags
  <2>5. CommandFits' /\ UpFits'
    BY <2>2, <2>3, <2>4 DEF CommandFits, UpFits, CommandOf
  <2>6. RxFits' /\ DownFits'
    BY <1>1, <2>1, <2>2 DEF RxFits, DownFits
  <2> QED
    BY <1>1, <2>1, <2>2, <2>5, <2>6 DEF LinkInv
<1>5. CASE Arrive
  <2>1. up # NoFrame /\ Receive(up)
    BY <1>5 DEF Arrive
  <2>2. RtcInv'
    BY <2>1, RtcStepKeeps DEF Receive
  <2> QED
    BY <2>1, <2>2, ReceiveKeeps
<1>6. CASE Harm
  <2>1. PICK f \in Harmed(up) : up # NoFrame /\ Receive(f)
    BY <1>6 DEF Harm
  <2>2. RtcInv'
    BY <2>1, RtcStepKeeps DEF Receive
  <2> QED
    BY <2>1, <2>2, ReceiveKeeps
<1>7. CASE Fade
  <2>1. RtcInv' /\ pc' = pc /\ local' = local
    BY <1>7, RtcStepKeeps DEF Fade, rtcVars
  <2>2. up' = NoFrame /\ UNCHANGED <<command, down, rxq, outcome, upSeq>>
    BY <1>7 DEF Fade
  <2> QED
    BY <1>1, <2>1, <2>2 DEF LinkInv, CommandFits, UpFits, RxFits, DownFits, CommandOf
<1>8. CASE GroundGiveUp
  <2>1. RtcInv' /\ pc' = pc /\ local' = local
    BY <1>8, RtcStepKeeps DEF GroundGiveUp, rtcVars
  <2>2. /\ up = NoFrame /\ command' = NoFrame /\ upSeq' = Byte(upSeq + 1)
        /\ UNCHANGED <<up, down, rxq, outcome>>
    BY <1>8 DEF GroundGiveUp
  <2>3. upSeq' \in Bytes
    BY <1>1, <2>2 DEF Byte, Bytes
  <2> QED
    BY <1>1, <2>1, <2>2, <2>3 DEF LinkInv, CommandFits, UpFits, RxFits, DownFits
<1>9. ASSUME NEW t \in Setters, Process(t) PROVE (RtcInv /\ LinkInv)'
  <2>1. t \in Tasks
    BY DEF Tasks
  <2>2. PICK epoch \in Times : Set(t, epoch)
    BY <1>9, ProcessSetsEpochs
  <2>3. RtcInv'
    BY <2>1, <2>2, RtcStepKeeps DEF RtcStep
  <2>4. rxq' = <<>> /\ UNCHANGED <<command, up, down, outcome, upSeq>>
    BY <1>9 DEF Process
  <2>5. DownFits'
    BY <2>1, <2>2, <2>4, SetKeepsGot
  <2> QED
    BY <1>1, <2>3, <2>4, <2>5 DEF LinkInv, CommandFits, UpFits, RxFits, CommandOf
<1>10. ASSUME NEW t \in Readers, Report(t) PROVE (RtcInv /\ LinkInv)'
  <2>1. /\ pc[t] = "got" /\ t \in Tasks /\ UNCHANGED rtcVars
        /\ down' = AirEncode("TM", {"REQUIRES_ACK"}, reports, TimeReport(local[t]))
        /\ UNCHANGED <<command, up, rxq, outcome, upSeq>>
    BY <1>10 DEF Report, Tasks
  <2>2. RtcInv' /\ pc' = pc /\ local' = local
    BY <2>1, RtcStepKeeps DEF rtcVars
  <2>3. local[t] \in Times
    BY <2>1 DEF RtcInv, TaskFits
  <2>4. TimeReport(local[t]) = ReportOf(local[t], upSeq)
    BY DEF TimeReport, ReportOf
  <2>5. Len(ReportOf(local[t], upSeq)) = 8
    BY <1>1, <2>3, BytesOfReport
  <2>6. down' = Sent("TM", FirstFlags, reports, 8, ReportOf(local[t], upSeq))
    BY <2>1, <2>4, <2>5, EncodeIs DEF FirstFlags
  <2>7. DownFits'
    BY <1>1, <2>1, <2>2, <2>6 DEF DownFits
  <2> QED
    BY <1>1, <2>1, <2>2, <2>7 DEF LinkInv, CommandFits, UpFits, RxFits, CommandOf
<1>11. ASSUME NEW t \in Readers, Done(t) PROVE (RtcInv /\ LinkInv)'
  <2>1. t \in Tasks /\ Return(t) /\ down' = NoFrame /\ UNCHANGED <<command, up, rxq, outcome, upSeq>>
    BY <1>11 DEF Done, Tasks
  <2>2. RtcInv'
    BY <2>1, RtcStepKeeps DEF RtcStep
  <2> QED
    BY <1>1, <2>1, <2>2 DEF LinkInv, CommandFits, UpFits, RxFits, DownFits, CommandOf
<1>12. ASSUME NEW t \in Tasks, ClockStep(t) PROVE (RtcInv /\ LinkInv)'
  <2>1. RtcInv'
    BY <1>12, RtcStepKeeps DEF ClockStep, RtcStep
  <2>2. down = NoFrame /\ UNCHANGED link
    BY <1>12 DEF ClockStep
  <2> QED
    BY <1>1, <2>1, <2>2 DEF LinkInv, CommandFits, UpFits, RxFits, DownFits, CommandOf, link
<1>13. CASE UNCHANGED all
  <2>1. RtcInv' /\ pc' = pc /\ local' = local
    BY <1>13, RtcStepKeeps DEF all, rtcVars
  <2>2. UNCHANGED link
    BY <1>13 DEF all
  <2> QED
    BY <1>1, <2>1, <2>2 DEF LinkInv, CommandFits, UpFits, RxFits, DownFits, CommandOf, link
<1> QED
  BY <1>2, <1>3, <1>4, <1>5, <1>6, <1>7, <1>8, <1>9, <1>10, <1>11, <1>12, <1>13 DEF TNext

\* A read gives the time last set plus the seconds that have passed since, whatever other
\* tasks do and wherever one is deleted (ReadsTheTime): for every set of tasks, every
\* sequence of sets and deletions, and every second from 2000 to the end of LastYear, over
\* the ends of months and of leap years.
THEOREM ReadsTheTimeHolds == TSpec => []ReadsTheTime
<1>1. TInit => RtcInv /\ LinkInv
  BY TInitFits
<1>2. RtcInv /\ LinkInv /\ [TNext]_all => (RtcInv /\ LinkInv)'
  BY TNextKeeps
<1>3. RtcInv /\ LinkInv => ReadsTheTime
  BY DEF RtcInv, TaskFits, ReadsTheTime
<1> QED
  BY <1>1, <1>2, <1>3, PTL DEF TSpec

\* The same of the wall clock alone, whatever of Epochs it is set to.
THEOREM ClockReadsTheTime == RtcSpec => []ReadsTheTime
<1>1. RtcInit => RtcInv
  BY RtcStarts
<1>2. RtcInv /\ [RtcNext]_rtcVars => RtcInv'
  <2>1. RtcNext => RtcStep
    BY EpochsInReach DEF RtcNext, Task, RtcStep
  <2> QED
    BY <2>1, RtcStepKeeps
<1>3. RtcInv => ReadsTheTime
  BY DEF RtcInv, TaskFits, ReadsTheTime
<1> QED
  BY <1>1, <1>2, <1>3, PTL DEF RtcSpec

\* A frame as it was sent is accepted, the first time and again; none that the air has
\* changed or cut is; and the time in telemetry is, byte for byte, the one that was read
\* (OnlyWhatWasSent): for every sequence number, any number of retransmissions and reports.
THEOREM OnlyWhatWasSentHolds == TSpec => []OnlyWhatWasSent
<1>1. TInit => RtcInv /\ LinkInv
  BY TInitFits
<1>2. RtcInv /\ LinkInv /\ [TNext]_all => (RtcInv /\ LinkInv)'
  BY TNextKeeps
<1>3. RtcInv /\ LinkInv => OnlyWhatWasSent
  <2> SUFFICES ASSUME RtcInv, LinkInv PROVE OnlyWhatWasSent
    OBVIOUS
  <2>1. outcome \notin {"refused", "forged"}
    BY DEF LinkInv
  <2>2. ASSUME down # NoFrame
        PROVE  /\ AirDecode(down) # Rejected
               /\ \E t \in Readers : /\ pc[t] = "got"
                                     /\ known[t] \in {FromBytes(SubSeq(down.payload, 3, 6)), Unknown}
    <3>1. PICK t \in Readers, s \in Bytes :
              \E r : /\ pc[t] = "got"
                     /\ down = Sent("TM", FirstFlags, r, 8, ReportOf(local[t], s))
      BY <2>2 DEF LinkInv, DownFits
    <3>2. PICK r : pc[t] = "got" /\ down = Sent("TM", FirstFlags, r, 8, ReportOf(local[t], s))
      BY <3>1
    <3>3. TaskFits(t) /\ t \in Tasks
      BY DEF RtcInv, Tasks
    <3>4. local[t] \in Times /\ known[t] \in {local[t], Unknown}
      BY <3>2, <3>3 DEF TaskFits
    <3>5. Len(ReportOf(local[t], s)) = 8 /\ FromBytes(SubSeq(ReportOf(local[t], s), 3, 6)) = local[t]
      BY <3>4, BytesOfReport
    <3>6. FirstFlags \in SentFlags
      BY DEF FirstFlags, SentFlags
    <3>7. PICK n \in {6, 8} : n = 8 /\ Len(ReportOf(local[t], s)) = n
      BY <3>5
    <3>8. AirDecode(down) # Rejected
      BY <3>2, <3>6, <3>7, SentIsAccepted
    <3>9. down.payload = ReportOf(local[t], s)
      BY <3>2 DEF Sent, FrameOf
    <3> QED
      BY <3>2, <3>4, <3>5, <3>8, <3>9
  <2> QED
    BY <2>1, <2>2 DEF OnlyWhatWasSent
<1> QED
  BY <1>1, <1>2, <1>3, PTL DEF TSpec

===============================================================================
